---- MODULE Spec2Model ----
(***************************************************************************)
(* Verification model of the DSBA examination portal: the evaluation       *)
(* engine and the repository of src/services/examService.ts, and the       *)
(* test-taking component src/components/TakeTest.tsx, and the teacher's    *)
(* dashboards AntiCheatMonitor.tsx and COPOAnalytics.tsx.                  *)
(*                                                                         *)
(* JavaScript numbers are modelled as exact rationals [n, d] in lowest     *)
(* terms; strings are sequences of one-character strings, so that          *)
(* toLowerCase and includes are computed, not assumed.                     *)
(***************************************************************************)
EXTENDS Integers, Sequences, FiniteSets, TLC

VARIABLES
  evTest,        \* evaluateAnswers: the `test` argument
  evAnswers,     \* evaluateAnswers: the `answers` argument
  evResult,      \* evaluateAnswers: the returned {score, evaluatedAnswers}
  evPc,          \* "idle", "call" before evaluateAnswers has run, "return" after
  tests,         \* localStorage['dsba_tests'], parsed
  submissions,   \* localStorage['dsba_submissions'], parsed
  now,           \* Date.now(), in seconds
  initialized,   \* localStorage holds the four keys that initializeData writes
  board,         \* the list returned by the getLeaderboard call just made
  boardFor,      \* <<testId>> of that call, <<>> when the last step was another one
  submitResult,  \* <<outcome>> of the submitTest call just made, else <<>>
  anticheat,     \* localStorage['dsba_anticheat'], parsed
  mounted,       \* TakeTest: the effect has run and its cleanup has not
  unmounted,     \* the cleanup of the mount effect has run
  subsAtStart,   \* Len(submissions) when the current attempt started
  test,          \* TakeTest state `test`: <<>> for null, else <<Test>>
  answers,       \* TakeTest state `answers`
  timeLeft,      \* TakeTest state `timeLeft`
  startTime,     \* TakeTest state `startTime`
  showSubmitDialog, \* TakeTest state `showSubmitDialog`
  studentName,   \* TakeTest state `studentName`
  isSubmitting,  \* TakeTest state `isSubmitting`
  antiCheatEvents, \* TakeTest state `antiCheatEvents`
  intervalActive, \* intervalRef.current is a running interval
  testStarted,   \* testStarted.current
  fx,            \* the render whose closures the mount effect captured
  navPending,    \* navigate('/student-dashboard') was called, unmount is due
  selectedTest,  \* the dashboards' state `selectedTest`, per component
  antiCheatSummary,    \* AntiCheatMonitor state `antiCheatSummary`
  studentRiskProfiles, \* AntiCheatMonitor state `studentRiskProfiles`
  coPerformance, \* COPOAnalytics state `coPerformance`
  poPerformance, \* COPOAnalytics state `poPerformance`
  loaded,        \* the dashboards whose load effect has run
  title,         \* CreateTestDialog state `title`
  description,   \* CreateTestDialog state `description`
  subject,       \* CreateTestDialog state `subject`
  durationInput, \* CreateTestDialog state `duration`
  draftQuestions, \* CreateTestDialog state `questions`
  currentQuestion, \* CreateTestDialog state `currentQuestion`
  lastToast,     \* the toast of the addQuestion or handleCreateTest call just made
  edits,         \* how many fields of the dialog the teacher has changed
  route,         \* the student's location: <<>> for /student-dashboard, <<id>> for /take-test/<id>
  activeTests,   \* StudentDashboard state `activeTests`
  mySubmissions, \* StudentDashboard state `mySubmissions`
  leaderboards   \* StudentDashboard state `leaderboards`: <<testId, board>> pairs

evalVars == <<evTest, evAnswers, evResult, evPc>>
storeVars == <<tests, submissions, now, initialized>>
boardVars == <<board, boardFor, submitResult>>
takeVars == <<anticheat, mounted, unmounted, subsAtStart, test, answers, timeLeft,
              startTime, showSubmitDialog, studentName, isSubmitting,
              antiCheatEvents, intervalActive, testStarted, fx, navPending>>
dashVars == <<selectedTest, antiCheatSummary, studentRiskProfiles,
              coPerformance, poPerformance, loaded>>
authorVars == <<title, description, subject, durationInput, draftQuestions, currentQuestion,
                lastToast, edits>>
studentVars == <<route, activeTests, mySubmissions, leaderboards>>

\* ------------------------------------------------------------------ bounds
MaxMarks == 3
MaxKeywords == 5
MaxSelected == 3
MaxQuestions == 2
MaxStrLen == 2
MaxCanon == 3
MaxClock == 3
MaxTests == 2
MaxSubmissions == 3
MaxTimeSpent == 1
MaxTimeLeft == 60
MaxEvents == 1
MaxChoice == 2
MaxBurst == 51
MaxDashSubmissions == 2
MaxLog == 2
MaxElapsed == 2
MaxRepoSubmissions == 2
MaxEdits == 2
MaxDraft == 2
MaxDraftKeywords == 1

\* ------------------------------------------------------------- arithmetic
RECURSIVE GCD(_, _)
GCD(a, b) == IF b = 0 THEN a ELSE GCD(b, a % b)

Abs(x) == IF x < 0 THEN -x ELSE x

\* the number n/d (d # 0), in lowest terms with a positive denominator
Rat(n, d) ==
  LET g == GCD(Abs(n), Abs(d))
      s == IF d < 0 THEN -1 ELSE 1
  IN [n |-> (s * n) \div g, d |-> (s * d) \div g]

Num(i) == [n |-> i, d |-> 1]
RatAdd(x, y) == Rat(x.n * y.d + y.n * x.d, x.d * y.d)
RatSub(x, y) == Rat(x.n * y.d - y.n * x.d, x.d * y.d)
RatMul(x, y) == Rat(x.n * y.n, x.d * y.d)
RatDiv(x, y) == Rat(x.n * y.d, x.d * y.n)
RatLe(x, y) == x.n * y.d <= y.n * x.d
RatMin(x, y) == IF RatLe(x, y) THEN x ELSE y
RatMax(x, y) == IF RatLe(x, y) THEN y ELSE x
Half == [n |-> 1, d |-> 2]

\* Math.round: the nearest integer, halves towards +infinity
MathRound(x) == (2 * x.n + x.d) \div (2 * x.d)

\* ---------------------------------------------------------------- strings
UpperCase ==
  <<"A", "B", "C", "D", "E", "F", "G", "H", "I", "J", "K", "L", "M",
    "N", "O", "P", "Q", "R", "S", "T", "U", "V", "W", "X", "Y", "Z">>
LowerCase ==
  <<"a", "b", "c", "d", "e", "f", "g", "h", "i", "j", "k", "l", "m",
    "n", "o", "p", "q", "r", "s", "t", "u", "v", "w", "x", "y", "z">>

LowerChar(c) ==
  IF \E i \in DOMAIN UpperCase : UpperCase[i] = c
  THEN LowerCase[CHOOSE i \in DOMAIN UpperCase : UpperCase[i] = c]
  ELSE c

\* String.prototype.toLowerCase
toLowerCase(s) == [i \in 1..Len(s) |-> LowerChar(s[i])]

\* String.prototype.includes
includes(s, sub) ==
  \E i \in 0..(Len(s) - Len(sub)) : SubSeq(s, i + 1, i + Len(sub)) = sub

Range(f) == {f[i] : i \in DOMAIN f}

SeqsUpTo(S, n) == UNION {[1..k -> S] : k \in 0..n}

\* ----------------------------------------------------------------- values
\* a value of type  string | string[] | undefined
Undefined == [t |-> "undefined", s |-> <<>>, a |-> <<>>]
Str(s) == [t |-> "string", s |-> s, a |-> <<>>]
Arr(a) == [t |-> "array", s |-> <<>>, a |-> a]

\* answers[question.id]
Lookup(given, id) == IF id \in DOMAIN given THEN given[id] ELSE Undefined

\* x === y: strings by value, arrays by identity (two arrays that went
\* through JSON are never the same object), undefined only with undefined
strictEquals(x, y) ==
  /\ x.t = y.t
  /\ x.t # "array"
  /\ x.s = y.s

NoFeedback == [found |-> FALSE, keywords |-> <<>>]
KeywordsFound(matched) == [found |-> TRUE, keywords |-> matched]

\* ---------------------------------------------------------------- records
\* Question (src/types/exam.ts); text, co and po are left out
\* Question (src/types/exam.ts); co and po are '' as the authoring dialog
\* leaves them when no outcome is chosen
Question(id, type, options, correctAnswer, keywords, marks) ==
  [id |-> id, type |-> type, options |-> options, correctAnswer |-> correctAnswer,
   keywords |-> keywords, marks |-> marks, co |-> "", po |-> ""]

\* a question with its course and program outcome
Tagged(question, co, po) == [question EXCEPT !.co = co, !.po = po]

Verdict(isCorrect, marksAwarded, feedback) ==
  [isCorrect |-> isCorrect, marksAwarded |-> marksAwarded, feedback |-> feedback]

\* Test (src/types/exam.ts): title, description, subject, createdAt and
\* instructions are display data and are left out. createdBy is the teacher
\* 'T001', who is the author of the seeded test and the one who is logged in
\* when a test is created.
Test(id, duration, totalMarks, isActive, questions) ==
  [id |-> id, duration |-> duration, totalMarks |-> totalMarks,
   isActive |-> isActive, questions |-> questions, createdBy |-> "T001"]

\* ------------------------------------------------------ evaluation engine
\* evaluateMcq comparing without regard to case
evaluateMcq_IgnoreCase(question, userAnswer) ==
  LET isCorrect == /\ userAnswer.t = "string"
                   /\ question.correctAnswer.t = "string"
                   /\ toLowerCase(userAnswer.s) = toLowerCase(question.correctAnswer.s)
  IN Verdict(isCorrect, IF isCorrect THEN Num(question.marks) ELSE Num(0), NoFeedback)

\* case 'mcq'
evaluateMcq(question, userAnswer) ==
  LET isCorrect == strictEquals(userAnswer, question.correctAnswer)
  IN Verdict(isCorrect, IF isCorrect THEN Num(question.marks) ELSE Num(0), NoFeedback)

\* case 'checkbox' with the penalty not capped at half of the partial score
evaluateCheckbox_UncappedPenalty(question, userAnswer) ==
  IF userAnswer.t = "array" /\ question.correctAnswer.t = "array"
  THEN LET correctAnswers == Range(question.correctAnswer.a)
           userAnswers == Range(userAnswer.a)
           correctSelected == Cardinality({ans \in userAnswers : ans \in correctAnswers})
           totalCorrect == Cardinality(correctAnswers)
           incorrectSelected == Cardinality(userAnswers) - correctSelected
           partialScore == RatMul(RatDiv(Num(correctSelected), Num(totalCorrect)),
                                  Num(question.marks))
           penalty == RatMul(Num(incorrectSelected),
                             RatDiv(Num(question.marks), Num(totalCorrect)))
       IN Verdict(correctSelected = totalCorrect /\ incorrectSelected = 0,
                  RatMax(Num(0), RatSub(partialScore, penalty)), NoFeedback)
  ELSE Verdict(FALSE, Num(0), NoFeedback)

\* evaluateCheckbox counting the submitted list instead of the submitted set
evaluateCheckbox_CountList(question, userAnswer) ==
  IF userAnswer.t = "array" /\ question.correctAnswer.t = "array"
  THEN LET correctAnswers == Range(question.correctAnswer.a)
           correctSelected == Cardinality({i \in 1..Len(userAnswer.a) :
                                             userAnswer.a[i] \in correctAnswers})
           totalCorrect == Cardinality(correctAnswers)
           incorrectSelected == Len(userAnswer.a) - correctSelected
           partialScore == RatMul(RatDiv(Num(correctSelected), Num(totalCorrect)),
                                  Num(question.marks))
           penalty == RatMin(RatMul(partialScore, Half),
                             RatMul(Num(incorrectSelected),
                                    RatDiv(Num(question.marks), Num(totalCorrect))))
       IN Verdict(correctSelected = totalCorrect /\ incorrectSelected = 0,
                  RatMax(Num(0), RatSub(partialScore, penalty)), NoFeedback)
  ELSE Verdict(FALSE, Num(0), NoFeedback)

\* case 'checkbox' with the penalty added to the partial score
evaluateCheckbox_PenaltyAdded(question, userAnswer) ==
  IF userAnswer.t = "array" /\ question.correctAnswer.t = "array"
  THEN LET correctAnswers == Range(question.correctAnswer.a)
           userAnswers == Range(userAnswer.a)
           correctSelected == Cardinality({ans \in userAnswers : ans \in correctAnswers})
           totalCorrect == Cardinality(correctAnswers)
           incorrectSelected == Cardinality(userAnswers) - correctSelected
           partialScore == RatMul(RatDiv(Num(correctSelected), Num(totalCorrect)),
                                  Num(question.marks))
           penalty == RatMin(RatMul(partialScore, Half),
                             RatMul(Num(incorrectSelected),
                                    RatDiv(Num(question.marks), Num(totalCorrect))))
       IN Verdict(correctSelected = totalCorrect /\ incorrectSelected = 0,
                  RatMax(Num(0), RatAdd(partialScore, penalty)), NoFeedback)
  ELSE Verdict(FALSE, Num(0), NoFeedback)

\* case 'checkbox'
evaluateCheckbox(question, userAnswer) ==
  IF userAnswer.t = "array" /\ question.correctAnswer.t = "array"
  THEN LET correctAnswers == Range(question.correctAnswer.a)
           userAnswers == Range(userAnswer.a)
           correctSelected == Cardinality({ans \in userAnswers : ans \in correctAnswers})
           totalCorrect == Cardinality(correctAnswers)
           incorrectSelected == Cardinality(userAnswers) - correctSelected
           partialScore == RatMul(RatDiv(Num(correctSelected), Num(totalCorrect)),
                                  Num(question.marks))
           penalty == RatMin(RatMul(partialScore, Half),
                             RatMul(Num(incorrectSelected),
                                    RatDiv(Num(question.marks), Num(totalCorrect))))
       IN Verdict(correctSelected = totalCorrect /\ incorrectSelected = 0,
                  RatMax(Num(0), RatSub(partialScore, penalty)), NoFeedback)
  ELSE Verdict(FALSE, Num(0), NoFeedback)

\* question.keywords.filter(keyword => answerLower.includes(keyword.toLowerCase()))
RECURSIVE matchedKeywordsOf(_, _)
matchedKeywordsOf(keywords, answerLower) ==
  IF keywords = <<>> THEN <<>>
  ELSE IF includes(answerLower, toLowerCase(Head(keywords)))
       THEN <<Head(keywords)>> \o matchedKeywordsOf(Tail(keywords), answerLower)
       ELSE matchedKeywordsOf(Tail(keywords), answerLower)

\* evaluateDescriptive with the threshold exclusive (> instead of >=)
evaluateDescriptive_StrictThreshold(question, userAnswer) ==
  IF userAnswer.t = "string" /\ question.keywords.t = "array"
  THEN LET answerLower == toLowerCase(userAnswer.s)
           matchedKeywords == matchedKeywordsOf(question.keywords.a, answerLower)
           keywordScore == RatMul(RatDiv(Num(Len(matchedKeywords)),
                                         Num(Len(question.keywords.a))),
                                  Num(question.marks))
       IN Verdict(~RatLe(Num(Len(matchedKeywords)),
                         RatMul(Num(Len(question.keywords.a)), Rat(6, 10))),
                  Num(MathRound(keywordScore)), KeywordsFound(matchedKeywords))
  ELSE Verdict(FALSE, Num(0), NoFeedback)

\* case 'descriptive'; length * 0.6 is computed exactly (in tenths)
evaluateDescriptive(question, userAnswer) ==
  IF userAnswer.t = "string" /\ question.keywords.t = "array"
  THEN LET answerLower == toLowerCase(userAnswer.s)
           matchedKeywords == matchedKeywordsOf(question.keywords.a, answerLower)
           keywordScore == RatMul(RatDiv(Num(Len(matchedKeywords)),
                                         Num(Len(question.keywords.a))),
                                  Num(question.marks))
       IN Verdict(RatLe(RatMul(Num(Len(question.keywords.a)), Rat(6, 10)),
                        Num(Len(matchedKeywords))),
                  Num(MathRound(keywordScore)), KeywordsFound(matchedKeywords))
  ELSE Verdict(FALSE, Num(0), NoFeedback)

\* evaluateQuestion reading an absent answer as the empty string
\* (answers[question.id] || '')
evaluateQuestion_DefaultEmpty(question, userAnswer) ==
  LET given == IF userAnswer.t = "undefined" THEN Str(<<>>) ELSE userAnswer
  IN CASE question.type = "mcq" -> evaluateMcq(question, given)
       [] question.type = "checkbox" -> evaluateCheckbox(question, given)
       [] question.type = "descriptive" -> evaluateDescriptive(question, given)
       [] OTHER -> Verdict(FALSE, Num(0), NoFeedback)

\* the body of test.questions.forEach: the switch on question.type
evaluateQuestion(question, userAnswer) ==
  CASE question.type = "mcq" -> evaluateMcq(question, userAnswer)
    [] question.type = "checkbox" -> evaluateCheckbox(question, userAnswer)
    [] question.type = "descriptive" -> evaluateDescriptive(question, userAnswer)
    [] OTHER -> Verdict(FALSE, Num(0), NoFeedback)

RECURSIVE RatSum(_)
RatSum(seq) == IF seq = <<>> THEN Num(0) ELSE RatAdd(Head(seq), RatSum(Tail(seq)))

\* evaluateAnswers rounding every award before adding it to the total
evaluateAnswers_RoundEach(aTest, given) ==
  LET verdicts == [i \in 1..Len(aTest.questions) |->
                     evaluateQuestion(aTest.questions[i],
                                      Lookup(given, aTest.questions[i].id))]
      ids == {aTest.questions[i].id : i \in 1..Len(aTest.questions)}
      last(id) == CHOOSE i \in 1..Len(aTest.questions) :
                    /\ aTest.questions[i].id = id
                    /\ \A j \in 1..Len(aTest.questions) :
                          aTest.questions[j].id = id => j <= i
      totalScore == RatSum([i \in 1..Len(aTest.questions) |->
                              Num(MathRound(verdicts[i].marksAwarded))])
  IN [score |-> MathRound(totalScore),
      evaluatedAnswers |-> [id \in ids |-> verdicts[last(id)]]]

\* evaluateAnswers giving a verdict only to the questions that were answered
evaluateAnswers_AnsweredOnly(aTest, given) ==
  LET verdicts == [i \in 1..Len(aTest.questions) |->
                     evaluateQuestion(aTest.questions[i],
                                      Lookup(given, aTest.questions[i].id))]
      ids == {aTest.questions[i].id : i \in 1..Len(aTest.questions)} \cap DOMAIN given
      last(id) == CHOOSE i \in 1..Len(aTest.questions) :
                    /\ aTest.questions[i].id = id
                    /\ \A j \in 1..Len(aTest.questions) :
                          aTest.questions[j].id = id => j <= i
      totalScore == RatSum([i \in 1..Len(aTest.questions) |-> verdicts[i].marksAwarded])
  IN [score |-> MathRound(totalScore),
      evaluatedAnswers |-> [id \in ids |-> verdicts[last(id)]]]

\* evaluateAnswers(test, answers): one verdict per question in order, written
\* to evaluatedAnswers[question.id] (a later question overwrites an equal id)
evaluateAnswers(aTest, given) ==
  LET verdicts == [i \in 1..Len(aTest.questions) |->
                     evaluateQuestion(aTest.questions[i],
                                      Lookup(given, aTest.questions[i].id))]
      ids == {aTest.questions[i].id : i \in 1..Len(aTest.questions)}
      last(id) == CHOOSE i \in 1..Len(aTest.questions) :
                    /\ aTest.questions[i].id = id
                    /\ \A j \in 1..Len(aTest.questions) :
                          aTest.questions[j].id = id => j <= i
      totalScore == RatSum([i \in 1..Len(aTest.questions) |-> verdicts[i].marksAwarded])
  IN [score |-> MathRound(totalScore),
      evaluatedAnswers |-> [id \in ids |-> verdicts[last(id)]]]

\* ------------------------------------------------------------- repository
\* mockTests: 'test-1' is id 1; an id 'test-<n>' or 'sub-<n>' is the number n
mockTests ==
  << Test(1, 120, 40, TRUE,
       << Tagged(Question("q1", "mcq",
            Arr(<< <<"Q", "u", "e", "u", "e">>, <<"S", "t", "a", "c", "k">>,
                   <<"A", "r", "r", "a", "y">>,
                   <<"L", "i", "n", "k", "e", "d", " ", "L", "i", "s", "t">> >>),
            Str(<<"S", "t", "a", "c", "k">>), Undefined, 5), "CO1", "PO1"),
          Tagged(Question("q2", "checkbox",
            Arr(<< <<"A", "r", "r", "a", "y">>, <<"T", "r", "e", "e">>,
                   <<"S", "t", "a", "c", "k">>, <<"G", "r", "a", "p", "h">>,
                   <<"Q", "u", "e", "u", "e">> >>),
            Arr(<< <<"A", "r", "r", "a", "y">>, <<"S", "t", "a", "c", "k">>,
                   <<"Q", "u", "e", "u", "e">> >>), Undefined, 10), "CO2", "PO2"),
          Tagged(Question("q3", "descriptive", Undefined, Undefined,
            Arr(<< <<"d", "y", "n", "a", "m", "i", "c">>, <<"m", "e", "m", "o", "r", "y">>,
                   <<"i", "n", "s", "e", "r", "t", "i", "o", "n">>,
                   <<"d", "e", "l", "e", "t", "i", "o", "n">>,
                   <<"f", "l", "e", "x", "i", "b", "l", "e">> >>), 15), "CO3", "PO3") >>) >>

\* initializeData, for the tests: the seeded tests are written when the key is
\* absent; the other lists start empty
initializeData(storedTests, present) == IF present THEN storedTests ELSE mockTests

\* getTestById: <<test>> for the first test with that id, <<>> for null
getTestById(storedTests, id) ==
  IF \E i \in DOMAIN storedTests : storedTests[i].id = id
  THEN <<storedTests[CHOOSE i \in DOMAIN storedTests :
                       /\ storedTests[i].id = id
                       /\ \A j \in DOMAIN storedTests : storedTests[j].id = id => i <= j]>>
  ELSE <<>>

\* createTest: the test data with id 'test-<Date.now()>', pushed to the list
createTest(storedTests, clock, testData) ==
  Append(storedTests, [testData EXCEPT !.id = clock])

\* submitTest pushing a submission without results before it looks for the test
submitTest_PushThenThrow(storedTests, storedSubmissions, clock, testId, studentId, name, given, timeSpent, events) ==
  LET aTest == getTestById(storedTests, testId)
      submission == [id |-> clock,
                     testId |-> testId,
                     studentId |-> studentId,
                     studentName |-> name,
                     answers |-> given,
                     score |-> IF aTest = <<>> THEN 0 ELSE evaluateAnswers(aTest[1], given).score,
                     totalMarks |-> IF aTest = <<>> THEN 0 ELSE aTest[1].totalMarks,
                     timeSpent |-> timeSpent,
                     submittedAt |-> clock,
                     evaluatedAnswers |->
                       IF aTest = <<>> THEN <<>>
                       ELSE evaluateAnswers(aTest[1], given).evaluatedAnswers,
                     antiCheatEvents |-> events]
  IN [thrown |-> aTest = <<>>, submissions |-> Append(storedSubmissions, submission)]

\* submitTest: [thrown |-> TRUE] with the list untouched when the test is not
\* found, else the list with the new submission pushed
submitTest(storedTests, storedSubmissions, clock, testId, studentId, name, given, timeSpent, events) ==
  LET aTest == getTestById(storedTests, testId)
  IN IF aTest = <<>>
     THEN [thrown |-> TRUE, submissions |-> storedSubmissions]
     ELSE LET evaluated == evaluateAnswers(aTest[1], given)
              submission == [id |-> clock,
                             testId |-> testId,
                             studentId |-> studentId,
                             studentName |-> name,
                             answers |-> given,
                             score |-> evaluated.score,
                             totalMarks |-> aTest[1].totalMarks,
                             timeSpent |-> timeSpent,
                             submittedAt |-> clock,
                             evaluatedAnswers |-> evaluated.evaluatedAnswers,
                             antiCheatEvents |-> events]
          IN [thrown |-> FALSE, submissions |-> Append(storedSubmissions, submission)]

\* getSubmissionsByTest
RECURSIVE getSubmissionsByTest(_, _)
getSubmissionsByTest(storedSubmissions, testId) ==
  IF storedSubmissions = <<>> THEN <<>>
  ELSE IF Head(storedSubmissions).testId = testId
       THEN <<Head(storedSubmissions)>> \o getSubmissionsByTest(Tail(storedSubmissions), testId)
       ELSE getSubmissionsByTest(Tail(storedSubmissions), testId)

\* ------------------------------------------------------------ leaderboard
\* the comparator with the time order reversed
leaderboardCompare_SlowerFirst(a, b) ==
  IF b.score - a.score # 0 THEN b.score - a.score ELSE b.timeSpent - a.timeSpent

\* (a, b) => b.score - a.score || a.timeSpent - b.timeSpent
leaderboardCompare(a, b) ==
  IF b.score - a.score # 0 THEN b.score - a.score ELSE a.timeSpent - b.timeSpent

\* Array.prototype.sort is stable: an element goes after every element that
\* does not compare greater than it
RECURSIVE insertSorted(_, _)
insertSorted(sorted, x) ==
  IF sorted = <<>> THEN <<x>>
  ELSE IF leaderboardCompare(Head(sorted), x) > 0
       THEN <<x>> \o sorted
       ELSE <<Head(sorted)>> \o insertSorted(Tail(sorted), x)

RECURSIVE sort(_)
sort(arr) ==
  IF arr = <<>> THEN <<>>
  ELSE insertSorted(sort(SubSeq(arr, 1, Len(arr) - 1)), arr[Len(arr)])

\* the .map of getLeaderboard: rank is the index in submission order
leaderboardEntry(sub, index) ==
  [studentId |-> sub.studentId,
   studentName |-> sub.studentName,
   score |-> sub.score,
   totalMarks |-> sub.totalMarks,
   percentage |-> MathRound(Rat(sub.score * 100, sub.totalMarks)),
   rank |-> index,
   timeSpent |-> sub.timeSpent,
   submittedAt |-> sub.submittedAt]

\* getLeaderboard without the second pass that assigns the ranks
getLeaderboard_MapRanks(storedSubmissions, testId) ==
  LET subs == getSubmissionsByTest(storedSubmissions, testId)
  IN sort([i \in 1..Len(subs) |-> leaderboardEntry(subs[i], i)])

\* getLeaderboard
getLeaderboard(storedSubmissions, testId) ==
  LET subs == getSubmissionsByTest(storedSubmissions, testId)
      leaderboard == sort([i \in 1..Len(subs) |-> leaderboardEntry(subs[i], i)])
  IN [i \in 1..Len(leaderboard) |-> [leaderboard[i] EXCEPT !.rank = i]]


StoreIdle ==
  /\ tests = <<>>
  /\ submissions = <<>>
  /\ now = 0
  /\ board = <<>>
  /\ boardFor = <<>>
  /\ submitResult = <<>>

\* ------------------------------------------------- the TakeTest component
\* toggleTestStatus
\* updateTest(id, updates): tests[testIndex] = { ...tests[testIndex], ...updates }
updateTest(storedTests, id, updates) ==
  IF getTestById(storedTests, id) = <<>> THEN storedTests
  ELSE LET i == CHOOSE k \in DOMAIN storedTests :
                  /\ storedTests[k].id = id
                  /\ \A j \in DOMAIN storedTests : storedTests[j].id = id => k <= j
       IN [storedTests EXCEPT
             ![i] = [f \in DOMAIN storedTests[i] \cup DOMAIN updates |->
                       IF f \in DOMAIN updates THEN updates[f] ELSE storedTests[i][f]]]

toggleTestStatus(storedTests, id) ==
  IF getTestById(storedTests, id) = <<>> THEN storedTests
  ELSE LET i == CHOOSE k \in DOMAIN storedTests :
                  /\ storedTests[k].id = id
                  /\ \A j \in DOMAIN storedTests : storedTests[j].id = id => k <= j
       IN [storedTests EXCEPT ![i].isActive = ~storedTests[i].isActive]

\* String.prototype.trim, for spaces
RECURSIVE trimStart(_)
trimStart(s) == IF s # <<>> /\ Head(s) = " " THEN trimStart(Tail(s)) ELSE s
RECURSIVE trimEnd(_)
trimEnd(s) ==
  IF s # <<>> /\ s[Len(s)] = " " THEN trimEnd(SubSeq(s, 1, Len(s) - 1)) ELSE s
trim(s) == trimEnd(trimStart(s))

\* demoUsers: the student whose session this is
Students == {"S001"}
StudentName(id) == <<"A", "r", "j", "u", "n", " ", "P", "a", "t", "e", "l">>

\* the logged-in student (useAuth)
user == [id |-> "S001", name |-> StudentName("S001")]

\* an anti-cheat event; its timestamp (and the id logAntiCheatEvent adds) are
\* left out of the model
AntiCheatEvent(type, details) == [type |-> type, details |-> details]

\* logAntiCheatEvent
logAntiCheatEvent(storedEvents, event) == Append(storedEvents, event)

\* the events the handlers of TakeTest record
TabSwitch == AntiCheatEvent("tab_switch", "User switched to another tab/window")
CopyPaste == AntiCheatEvent("copy_paste", "Copy/paste attempt: c")
RightClick == AntiCheatEvent("right_click", "Right-click attempt detected")

\* the values the closures of one render see
Render(t, name, ans, events) ==
  [test |-> t, studentName |-> name, answers |-> ans, antiCheatEvents |-> events]

\* the state of TakeTest at its first render (the useState initial values)
TakeIdle ==
  /\ mounted = FALSE
  /\ test = <<>>
  /\ answers = <<>>
  /\ timeLeft = 0
  /\ startTime = 0
  /\ showSubmitDialog = FALSE
  /\ studentName = user.name
  /\ isSubmitting = FALSE
  /\ antiCheatEvents = <<>>
  /\ intervalActive = FALSE
  /\ testStarted = FALSE
  /\ fx = Render(<<>>, user.name, <<>>, <<>>)
  /\ navPending = FALSE
  /\ anticheat = <<>>
  /\ unmounted = FALSE
  /\ subsAtStart = 0

\* --------------------------------------------- the student's dashboard
\* getActiveTests: getTests().filter(test => test.isActive)
getActiveTests(storedTests) == SelectSeq(storedTests, LAMBDA t : t.isActive)

\* getSubmissionsByStudent
getSubmissionsByStudent(storedSubmissions, studentId) ==
  SelectSeq(storedSubmissions, LAMBDA sub : sub.studentId = studentId)

\* hasSubmitted: mySubmissions.some(sub => sub.testId === testId)
hasSubmitted(mine, testId) == \E i \in DOMAIN mine : mine[i].testId = testId

\* the leaderboards that loadData keeps: those of the listed tests that have
\* a submission, in the order of the list
leaderboardData(listed, storedSubmissions) ==
  SelectSeq([i \in DOMAIN listed |->
               <<listed[i].id, getLeaderboard(storedSubmissions, listed[i].id)>>],
            LAMBDA entry : Len(entry[2]) > 0)

\* the state of StudentDashboard at its first render, on /student-dashboard
StudentIdle ==
  /\ route = <<>>
  /\ activeTests = <<>>
  /\ mySubmissions = <<>>
  /\ leaderboards = <<>>

\* --------------------------------------------- the teacher's dashboards
\* the logged-in teacher (useAuth): demoUsers.teacher1
teacher == [id |-> "T001"]

\* the selection 'all' of a dashboard's test filter; a test is <<id>>
AllTests == <<>>

\* getTests().filter(test => test.createdBy === user?.id)
userTestsOf(storedTests, userId) ==
  SelectSeq(storedTests, LAMBDA t : t.createdBy = userId)

\* selectedTest === 'all' ? submissions : submissions.filter(sub => sub.testId === selectedTest)
filterSubmissions(subs, selected) ==
  IF selected = AllTests THEN subs
  ELSE SelectSeq(subs, LAMBDA sub : sub.testId = selected[1])

\* the initial antiCheatSummary (AntiCheatMonitor.tsx 47-54)
NoSummary ==
  [totalEvents |-> 0, tabSwitches |-> 0, copyPasteAttempts |-> 0,
   rightClicks |-> 0, fullscreenExits |-> 0, riskLevel |-> "Low"]

\* how many of these events have this type
eventsOfType(events, type) == Cardinality({i \in DOMAIN events : events[i].type = type})

\* submission.antiCheatEvents.forEach: each event adds one to totalEvents and
\* one to the counter of its type, if it is one of the four
tallyEvents(counters, events) ==
  [counters EXCEPT
     !.totalEvents = @ + Len(events),
     !.tabSwitches = @ + eventsOfType(events, "tab_switch"),
     !.copyPasteAttempts = @ + eventsOfType(events, "copy_paste"),
     !.rightClicks = @ + eventsOfType(events, "right_click"),
     !.fullscreenExits = @ + eventsOfType(events, "fullscreen_exit")]

\* filteredSubmissions.forEach
RECURSIVE tallySubmissions(_, _)
tallySubmissions(counters, subs) ==
  IF subs = <<>> THEN counters
  ELSE tallySubmissions(tallyEvents(counters, Head(subs).antiCheatEvents), Tail(subs))

\* the aggregate risk level with the thresholds of the per-student scale
aggregateRiskLevel_StudentScale(totalEvents) ==
  IF totalEvents > 10 THEN "Critical"
  ELSE IF totalEvents > 5 THEN "High"
  ELSE IF totalEvents > 2 THEN "Medium"
  ELSE "Low"

\* the risk level of calculateAntiCheatSummary (lines 110-114)
aggregateRiskLevel(totalEvents) ==
  IF totalEvents > 50 THEN "Critical"
  ELSE IF totalEvents > 20 THEN "High"
  ELSE IF totalEvents > 5 THEN "Medium"
  ELSE "Low"

\* calculateAntiCheatSummary
calculateAntiCheatSummary(subs, selected) ==
  LET counters == tallySubmissions(NoSummary, filterSubmissions(subs, selected))
  IN [counters EXCEPT !.riskLevel = aggregateRiskLevel(counters.totalEvents)]

\* the per-student risk level with the thresholds of the aggregate scale
studentRiskLevel_AggregateScale(totalViolations) ==
  IF totalViolations > 50 THEN "Critical"
  ELSE IF totalViolations > 20 THEN "High"
  ELSE IF totalViolations > 5 THEN "Medium"
  ELSE "Low"

\* the risk level of generateStudentRiskProfiles (lines 139-142)
studentRiskLevel(totalViolations) ==
  IF totalViolations > 10 THEN "Critical"
  ELSE IF totalViolations > 5 THEN "High"
  ELSE IF totalViolations > 2 THEN "Medium"
  ELSE "Low"

\* the .map of generateStudentRiskProfiles; testTitle is display data
riskProfile(submission) ==
  [studentId |-> submission.studentId,
   studentName |-> submission.studentName,
   totalViolations |-> Len(submission.antiCheatEvents),
   riskLevel |-> studentRiskLevel(Len(submission.antiCheatEvents)),
   events |-> submission.antiCheatEvents,
   testId |-> submission.testId]

\* .sort((a, b) => b.totalViolations - a.totalViolations), stable
RECURSIVE insertProfile(_, _)
insertProfile(sorted, x) ==
  IF sorted = <<>> THEN <<x>>
  ELSE IF x.totalViolations - Head(sorted).totalViolations > 0
       THEN <<x>> \o sorted
       ELSE <<Head(sorted)>> \o insertProfile(Tail(sorted), x)

RECURSIVE sortProfiles(_)
sortProfiles(arr) ==
  IF arr = <<>> THEN <<>>
  ELSE insertProfile(sortProfiles(SubSeq(arr, 1, Len(arr) - 1)), arr[Len(arr)])

\* generateStudentRiskProfiles
generateStudentRiskProfiles(subs, selected) ==
  LET flagged == SelectSeq(filterSubmissions(subs, selected),
                           LAMBDA sub : Len(sub.antiCheatEvents) > 0)
  IN sortProfiles([i \in 1..Len(flagged) |-> riskProfile(flagged[i])])

\* the submissions of the teacher's tests (loadAntiCheatData, lines 63-69)
userSubmissionsOf(storedTests, storedSubmissions, userId) ==
  SelectSeq(storedSubmissions,
            LAMBDA sub : \E i \in DOMAIN userTestsOf(storedTests, userId) :
                           userTestsOf(storedTests, userId)[i].id = sub.testId)

\* the entry of a tag in coData / poData before anything is added
NoData == [totalMarks |-> 0, totalScored |-> Num(0), questionCount |-> 0]

\* testSubmissions.forEach of one question: marks and awards are added for
\* each submission that has a result for the question
RECURSIVE addResults(_, _, _)
addResults(data, question, testSubmissions) ==
  IF testSubmissions = <<>> THEN data
  ELSE LET submission == Head(testSubmissions)
           next == IF question.id \in DOMAIN submission.evaluatedAnswers
                   THEN [data EXCEPT
                           !.totalMarks = @ + question.marks,
                           !.totalScored =
                              RatAdd(@, submission.evaluatedAnswers[question.id].marksAwarded)]
                   ELSE data
       IN addResults(next, question, Tail(testSubmissions))

\* question.co or question.po
tagOf(axis, question) == IF axis = "co" THEN question.co ELSE question.po

\* test.questions.forEach that files the questions without a tag under ''
RECURSIVE addQuestions_KeepUntagged(_, _, _, _)
addQuestions_KeepUntagged(byTag, axis, questions, testSubmissions) ==
  IF questions = <<>> THEN byTag
  ELSE LET question == Head(questions)
           tag == tagOf(axis, question)
           before == IF tag \in DOMAIN byTag THEN byTag[tag] ELSE NoData
           after == addResults([before EXCEPT !.questionCount = @ + 1],
                               question, testSubmissions)
       IN addQuestions_KeepUntagged([t \in DOMAIN byTag \cup {tag} |->
                                       IF t = tag THEN after ELSE byTag[t]],
                                    axis, Tail(questions), testSubmissions)

\* test.questions.forEach: questions without a tag on the axis are skipped
RECURSIVE addQuestions(_, _, _, _)
addQuestions(byTag, axis, questions, testSubmissions) ==
  IF questions = <<>> THEN byTag
  ELSE LET question == Head(questions)
           tag == tagOf(axis, question)
           before == IF tag \in DOMAIN byTag THEN byTag[tag] ELSE NoData
           after == addResults([before EXCEPT !.questionCount = @ + 1],
                               question, testSubmissions)
       IN IF tag = ""
          THEN addQuestions(byTag, axis, Tail(questions), testSubmissions)
          ELSE addQuestions([t \in DOMAIN byTag \cup {tag} |->
                               IF t = tag THEN after ELSE byTag[t]],
                            axis, Tail(questions), testSubmissions)

\* filteredTests.forEach without the filter that keeps the submissions of the test
RECURSIVE addTests_AnySubmission(_, _, _, _)
addTests_AnySubmission(byTag, axis, filteredTests, subs) ==
  IF filteredTests = <<>> THEN byTag
  ELSE addTests_AnySubmission(addQuestions(byTag, axis, Head(filteredTests).questions, subs),
                              axis, Tail(filteredTests), subs)

\* filteredTests.forEach, with testSubmissions = submissions of that test
RECURSIVE addTests(_, _, _, _)
addTests(byTag, axis, filteredTests, subs) ==
  IF filteredTests = <<>> THEN byTag
  ELSE addTests(addQuestions(byTag, axis, Head(filteredTests).questions,
                             SelectSeq(subs, LAMBDA sub : sub.testId = Head(filteredTests).id)),
                axis, Tail(filteredTests), subs)

\* selectedTest === 'all' ? tests : tests.filter(t => t.id === selectedTest)
filterTests(userTests, selected) ==
  IF selected = AllTests THEN userTests
  ELSE SelectSeq(userTests, LAMBDA t : t.id = selected[1])

\* data.totalMarks > 0 ? (data.totalScored / data.totalMarks) * 100 : 0
percentageOf(data) ==
  IF data.totalMarks > 0
  THEN RatMul(RatDiv(data.totalScored, Num(data.totalMarks)), Num(100))
  ELSE Num(0)

\* the attainment level with the percentage compared strictly
attainmentLevel_Strict(percentage) ==
  IF ~RatLe(percentage, Num(80)) THEN "Highly Attained"
  ELSE IF ~RatLe(percentage, Num(60)) THEN "Attained"
  ELSE IF ~RatLe(percentage, Num(40)) THEN "Partially Attained"
  ELSE "Not Attained"

\* the attainment level (COPOAnalytics.tsx 91-94 and 145-148)
attainmentLevel(percentage) ==
  IF RatLe(Num(80), percentage) THEN "Highly Attained"
  ELSE IF RatLe(Num(60), percentage) THEN "Attained"
  ELSE IF RatLe(Num(40), percentage) THEN "Partially Attained"
  ELSE "Not Attained"

\* the entry of the .map; coName / poName are display data. The percentage
\* shown is Math.round(percentage * 100) / 100
performanceEntry(key, data) ==
  [key |-> key,
   totalQuestions |-> data.questionCount,
   totalMarks |-> data.totalMarks,
   averageScore |-> data.totalScored,
   percentage |-> Rat(MathRound(RatMul(percentageOf(data), Num(100))), 100),
   attainmentLevel |-> attainmentLevel(percentageOf(data))]

\* the values of co and po that the authoring dialog produces, in the order
\* of localeCompare
OutcomeOrder ==
  <<"", "CO1", "CO2", "CO3", "CO4", "CO5", "PO1", "PO2", "PO3", "PO4", "PO5">>

\* calculateCOPerformance (axis "co") and calculatePOPerformance (axis "po")
calculatePerformance(axis, userTests, subs, selected) ==
  LET byTag == addTests(<<>>, axis, filterTests(userTests, selected), subs)
      keys == SelectSeq(OutcomeOrder, LAMBDA tag : tag \in DOMAIN byTag)
  IN [i \in 1..Len(keys) |-> performanceEntry(keys[i], byTag[keys[i]])]

\* the dashboards before their effects have run
DashIdle ==
  /\ selectedTest = [monitor |-> AllTests, analytics |-> AllTests]
  /\ antiCheatSummary = NoSummary
  /\ studentRiskProfiles = <<>>
  /\ coPerformance = <<>>
  /\ poPerformance = <<>>
  /\ loaded = {}

\* ------------------------------------------ the CreateTestDialog component
\* ' [CORRECT]', which the checkbox of an option appends, and '[CORRECT]',
\* which addQuestion looks for
CorrectSuffix == <<" ", "[", "C", "O", "R", "R", "E", "C", "T", "]">>
CorrectMarker == Tail(CorrectSuffix)

\* String.prototype.replace(pattern, '') with a string pattern: the first
\* occurrence is removed
remove(s, pattern) ==
  IF ~includes(s, pattern) THEN s
  ELSE LET i == CHOOSE k \in 0..(Len(s) - Len(pattern)) :
                  /\ SubSeq(s, k + 1, k + Len(pattern)) = pattern
                  /\ \A j \in 0..(k - 1) : SubSeq(s, j + 1, j + Len(pattern)) # pattern
       IN SubSeq(s, 1, i) \o SubSeq(s, i + Len(pattern) + 1, Len(s))

Digits == <<"0", "1", "2", "3", "4", "5", "6", "7", "8", "9">>
IsDigit(c) == \E i \in DOMAIN Digits : Digits[i] = c
DigitValue(c) == (CHOOSE i \in DOMAIN Digits : Digits[i] = c) - 1

\* the value of the longest prefix of digits, and its length
RECURSIVE digitsPrefix(_, _, _)
digitsPrefix(s, value, length) ==
  IF s # <<>> /\ IsDigit(Head(s))
  THEN digitsPrefix(Tail(s), value * 10 + DigitValue(Head(s)), length + 1)
  ELSE [value |-> value, length |-> length]

\* parseInt(string): <<n>>, or <<>> for NaN
parseInt(s) ==
  LET negative == s # <<>> /\ Head(s) = "-"
      parsed == digitsPrefix(IF negative THEN Tail(s) ELSE s, 0, 0)
  IN IF parsed.length = 0 THEN <<>>
     ELSE IF negative THEN <<0 - parsed.value>> ELSE <<parsed.value>>

\* parseInt(e.target.value) || fallback
parseIntOr(s, fallback) ==
  IF parseInt(s) = <<>> \/ parseInt(s) = <<0>> THEN fallback ELSE parseInt(s)[1]

\* the initial currentQuestion (lines 35-42), which addQuestion and resetForm
\* put back
BlankQuestion ==
  [type |-> "mcq", text |-> <<>>, options |-> << <<>>, <<>>, <<>>, <<>> >>,
   keywords |-> Undefined, marks |-> 5, co |-> "", po |-> ""]

\* what a call of addQuestion or handleCreateTest has reported with toast
NoToast == [handler |-> "none", toast |-> "none"]
Toast(handler, kind) == [handler |-> handler, toast |-> kind]

\* options.map(opt => opt.replace(' [CORRECT]', ''))
unmarked(options) == [i \in DOMAIN options |-> remove(options[i], CorrectSuffix)]

\* options.filter(opt => opt.includes('[CORRECT]'))
markedOptions(options) == SelectSeq(options, LAMBDA opt : includes(opt, CorrectMarker))

\* the switch of addQuestion (lines 72-110): isValid and correctAnswer
checkQuestion(current) ==
  CASE current.type = "mcq" ->
         LET marked == markedOptions(current.options)
         IN [isValid |-> Len(current.options) = 4 /\ marked # <<>>,
             correctAnswer |-> IF marked = <<>> THEN Str(<<>>)
                               ELSE Str(remove(marked[1], CorrectSuffix))]
    [] current.type = "checkbox" ->
         LET marked == markedOptions(current.options)
         IN [isValid |-> Len(current.options) >= 2 /\ marked # <<>>,
             correctAnswer |-> IF marked = <<>> THEN Str(<<>>) ELSE Arr(unmarked(marked))]
    [] OTHER ->
         [isValid |-> current.keywords.t = "array" /\ current.keywords.a # <<>>,
          correctAnswer |-> Str(<<>>)]

\* the question that addQuestion builds (lines 114-124)
newQuestion(current, clock) ==
  [id |-> "q-" \o ToString(clock), type |-> current.type,
   options |-> Arr(unmarked(current.options)),
   correctAnswer |-> checkQuestion(current).correctAnswer,
   keywords |-> current.keywords, marks |-> current.marks,
   co |-> current.co, po |-> current.po]

\* addQuestion storing the question before it has looked at it
addQuestion_AppendFirst(draft, current, clock) ==
  IF current.text = <<>> \/ current.marks = 0 \/ ~checkQuestion(current).isValid
  THEN [questions |-> Append(draft, newQuestion(current, clock)),
        currentQuestion |-> current, toast |-> "error"]
  ELSE [questions |-> Append(draft, newQuestion(current, clock)),
        currentQuestion |-> BlankQuestion, toast |-> "success"]

\* addQuestion: the draft list, currentQuestion and the toast after it
addQuestion(draft, current, clock) ==
  IF current.text = <<>> \/ current.marks = 0 \/ ~checkQuestion(current).isValid
  THEN [questions |-> draft, currentQuestion |-> current, toast |-> "error"]
  ELSE [questions |-> Append(draft, newQuestion(current, clock)),
        currentQuestion |-> BlankQuestion, toast |-> "success"]

\* questions.reduce((sum, q) => sum + q.marks, 0)
RECURSIVE sumMarks(_)
sumMarks(qs) == IF qs = <<>> THEN 0 ELSE Head(qs).marks + sumMarks(Tail(qs))

\* the testData of handleCreateTest (lines 173-188)
testDataOf(draft, minutes) == Test(0, minutes, sumMarks(draft), FALSE, draft)

AuthorIdle ==
  /\ title = <<>>
  /\ description = <<>>
  /\ subject = <<>>
  /\ durationInput = 120
  /\ draftQuestions = <<>>
  /\ currentQuestion = BlankQuestion
  /\ lastToast = NoToast
  /\ edits = 0

\* ------------------------------------------------ inputs of the evaluation
Chars == {"a", "A", "b", "B"}
Strings == SeqsUpTo(Chars, MaxStrLen)
Options == {<<c>> : c \in Chars}
KeywordVocabulary == {<<>>, <<"A">>, <<"b", "a">>}
MarksRange == 1..MaxMarks
QuestionIds == {"q1", "q2", "q3", "q4"}
UnknownId == "qx"
QuestionId(i) == CASE i = 1 -> "q1" [] i = 2 -> "q2" [] i = 3 -> "q3" [] OTHER -> "q4"

SelectionLists == SeqsUpTo(Options, MaxSelected)
CanonLists == SeqsUpTo(Options, MaxCanon) \ {<<>>}
KeywordLists == SeqsUpTo(KeywordVocabulary, MaxKeywords) \ {<<>>}

McqQuestions ==
  {Question("q1", "mcq", Undefined, Str(c), Undefined, m) :
     c \in {<<"a">>, <<"a", "b">>}, m \in MarksRange}
CheckboxQuestions ==
  {Question("q1", "checkbox", Undefined, Arr(c), Undefined, m) :
     c \in CanonLists, m \in MarksRange}
DescriptiveQuestions ==
  {Question("q1", "descriptive", Undefined, Str(<<>>), Arr(k), m) :
     k \in KeywordLists, m \in MarksRange}

StringAnswers == {Str(s) : s \in Strings}
ArrayAnswers == {Arr(a) : a \in SelectionLists}

\* one question, every shape of its kind, every answer that matters to it
SingleInputs ==
  (McqQuestions \X ({Undefined} \cup StringAnswers \cup ArrayAnswers))
  \cup (CheckboxQuestions \X ({Undefined, Str(<<"a">>)} \cup ArrayAnswers))
  \cup (DescriptiveQuestions \X ({Undefined, Arr(<<>>), Arr(<<<<"a">>>>)} \cup StringAnswers))

\* several questions, a few shapes each, answers also for an unknown id
SeveralShapes ==
  { Question("q1", "mcq", Undefined, Str(<<"a">>), Undefined, 2),
    Question("q1", "checkbox", Undefined, Arr(<<<<"a">>, <<"b">>>>), Undefined, 1),
    Question("q1", "checkbox", Undefined, Arr(<<<<"a">>, <<"b">>, <<"A">>>>), Undefined, 1),
    Question("q1", "descriptive", Undefined, Str(<<>>), Arr(<<<<>>, <<"b", "a">>>>), 3) }
SeveralAnswers == {Str(<<"a">>), Arr(<<<<"a">>>>), Arr(<<<<"a">>, <<"B">>>>)}

QuestionLists(n) ==
  {[i \in 1..n |-> [shape[i] EXCEPT !.id = QuestionId(i)]] : shape \in [1..n -> SeveralShapes]}
AnswerMaps(n) ==
  UNION {[D -> SeveralAnswers] : D \in SUBSET ({QuestionId(i) : i \in 1..n} \cup {UnknownId})}

EvalTest(questions) == Test(1, 120, 40, TRUE, questions)

NoVerdicts == [score |-> 0, evaluatedAnswers |-> <<>>]
EvalIdle ==
  /\ evTest = EvalTest(<<>>)
  /\ evAnswers = <<>>
  /\ evResult = NoVerdicts
  /\ evPc = "idle"

\* the drawn test is the only test of the store
EvalInit ==
  /\ \/ \E in \in SingleInputs :
          /\ evTest = EvalTest(<<in[1]>>)
          /\ evAnswers = IF in[2] = Undefined THEN <<>> ELSE [id \in {"q1"} |-> in[2]]
     \/ \E n \in 2..MaxQuestions : \E qs \in QuestionLists(n) : \E as \in AnswerMaps(n) :
          /\ evTest = EvalTest(qs)
          /\ evAnswers = as
  /\ evResult = NoVerdicts
  /\ evPc = "call"
  /\ tests = <<evTest>>
  /\ submissions = <<>>
  /\ now = 2
  /\ initialized = TRUE
  /\ board = <<>>
  /\ boardFor = <<>>
  /\ submitResult = <<>>
  /\ TakeIdle
  /\ DashIdle
  /\ StudentIdle
  /\ AuthorIdle

\* submitTest(test.id, ..., answers, ...): evResult keeps what its call of
\* evaluateAnswers(test, answers) returned
Evaluate ==
  /\ evPc = "call"
  /\ evResult' = evaluateAnswers(getTestById(tests, evTest.id)[1], evAnswers)
  /\ submissions' = submitTest(tests, submissions, now, evTest.id, "S001",
                               StudentName("S001"), evAnswers, 0, <<>>).submissions
  /\ evPc' = "return"
  /\ UNCHANGED <<evTest, evAnswers, tests, now, initialized, boardVars, takeVars, dashVars, authorVars, studentVars>>

vars == <<evalVars, storeVars, boardVars, takeVars, dashVars, authorVars, studentVars>>

EvalNext == Evaluate
SpecEval == EvalInit /\ [][EvalNext]_vars

\* ------------------------------------------- the repository as a machine
\* a test as handleCreateTest of the authoring dialog builds it: one
\* single-choice question of 5 marks, duration 1 minute, inactive
authoredQuiz ==
  Test(0, 1, 5, FALSE,
       << Question("q-1", "mcq",
            Arr(<< <<"A">>, <<"B">>, <<"C">>, <<"D">> >>), Str(<<"B">>), Undefined, 5) >>)


\* answer maps given to submitTest: nothing; the canonical answer of the mock
\* test's q1 next to an answer for an id no test has
AnswerMenu ==
  { <<>>,
    [id \in {"q1", "qx"} |-> Str(<<"S", "t", "a", "c", "k">>)] }

\* a browser whose localStorage holds none of the keys; Date.now() is past
\* every seeded id
StoreInit ==
  /\ tests = <<>>
  /\ submissions = <<>>
  /\ initialized = FALSE
  /\ now = 2
  /\ board = <<>>
  /\ boardFor = <<>>
  /\ submitResult = <<>>
  /\ EvalIdle
  /\ TakeIdle
  /\ DashIdle
  /\ StudentIdle
  /\ AuthorIdle

\* the record of an evaluateAnswers call is dropped by the next call of
\* another function
EvalCleared ==
  /\ evTest' = EvalTest(<<>>)
  /\ evAnswers' = <<>>
  /\ evResult' = NoVerdicts
  /\ evPc' = "idle"

Tick ==
  /\ now < MaxClock
  /\ now' = now + 1
  /\ board' = <<>> /\ boardFor' = <<>> /\ submitResult' = <<>>
  /\ EvalCleared
  /\ UNCHANGED <<tests, submissions, initialized, takeVars, dashVars, authorVars, studentVars>>

CreateTest ==
  /\ Len(initializeData(tests, initialized)) < MaxTests
  /\ tests' = createTest(initializeData(tests, initialized), now, authoredQuiz)
  /\ initialized' = TRUE
  /\ board' = <<>> /\ boardFor' = <<>> /\ submitResult' = <<>>
  /\ EvalCleared
  /\ UNCHANGED <<submissions, now, takeVars, dashVars, authorVars, studentVars>>

\* a test id in the store, or 0, which no test has
TestIdInputs ==
  {initializeData(tests, initialized)[i].id : i \in DOMAIN initializeData(tests, initialized)}
    \cup {0}

SubmitTest ==
  /\ Len(submissions) < MaxSubmissions
  /\ \E testId \in TestIdInputs, studentId \in Students,
        given \in AnswerMenu, timeSpent \in 0..MaxTimeSpent :
       LET result == submitTest(initializeData(tests, initialized), submissions, now,
                                testId, studentId, StudentName(studentId), given,
                                timeSpent, <<>>)
       IN /\ submissions' = result.submissions
          /\ submitResult' = <<[testId |-> testId, thrown |-> result.thrown,
                                before |-> submissions]>>
  /\ tests' = initializeData(tests, initialized)
  /\ initialized' = TRUE
  /\ board' = <<>> /\ boardFor' = <<>>
  /\ EvalCleared
  /\ UNCHANGED <<now, takeVars, dashVars, authorVars, studentVars>>

\* getLeaderboard reversing the stored list and saving it
GetLeaderboard_SortsStore ==
  /\ \E testId \in TestIdInputs :
       /\ board' = getLeaderboard(submissions, testId)
       /\ boardFor' = <<testId>>
  /\ submissions' = [i \in DOMAIN submissions |-> submissions[Len(submissions) + 1 - i]]
  /\ tests' = initializeData(tests, initialized)
  /\ initialized' = TRUE
  /\ submitResult' = <<>>
  /\ EvalCleared
  /\ UNCHANGED <<now, takeVars, dashVars, authorVars, studentVars>>

\* getLeaderboard(testId); its getSubmissions runs initializeData first
GetLeaderboard ==
  /\ \E testId \in TestIdInputs :
       /\ board' = getLeaderboard(submissions, testId)
       /\ boardFor' = <<testId>>
  /\ tests' = initializeData(tests, initialized)
  /\ initialized' = TRUE
  /\ submitResult' = <<>>
  /\ EvalCleared
  /\ UNCHANGED <<submissions, now, takeVars, dashVars, authorVars, studentVars>>

\* evaluateAnswers(test, answers) called on its own with a test that getTests
\* returned earlier; it reads and writes nothing of localStorage
EvaluateAnswers ==
  /\ initialized
  /\ \E i \in DOMAIN tests, given \in AnswerMenu :
       /\ evTest' = tests[i]
       /\ evAnswers' = given
       /\ evResult' = evaluateAnswers(tests[i], given)
  /\ evPc' = "return"
  /\ board' = <<>> /\ boardFor' = <<>> /\ submitResult' = <<>>
  /\ UNCHANGED <<storeVars, takeVars, dashVars, authorVars, studentVars>>

StoreNext == Tick \/ CreateTest \/ SubmitTest \/ GetLeaderboard \/ EvaluateAnswers
SpecStore == StoreInit /\ [][StoreNext]_vars

\* ------------------------------- every write of the repository as a machine
\* answer maps given to submitTest: nothing, and the canonical answer of q1
RepoAnswers == {<<>>, [id \in {"q1"} |-> Str(<<"S", "t", "a", "c", "k">>)]}

\* updates given to updateTest: Partial<Test>
UpdateMenu == {[totalMarks |-> 30], [questions |-> <<>>]}

\* the bookkeeping of a call that is none of getLeaderboard, submitTest and
\* evaluateAnswers
NoCallRecord ==
  /\ board' = <<>> /\ boardFor' = <<>> /\ submitResult' = <<>>
  /\ EvalCleared

\* submitTest(testId, ...) on behalf of the logged-in student
RepoSubmitTest ==
  /\ Len(submissions) < MaxRepoSubmissions
  /\ \E testId \in TestIdInputs, given \in RepoAnswers :
       LET result == submitTest(initializeData(tests, initialized), submissions, now,
                                testId, user.id, user.name, given, 0, <<>>)
       IN /\ submissions' = result.submissions
          /\ submitResult' = <<[testId |-> testId, thrown |-> result.thrown,
                                before |-> submissions]>>
  /\ tests' = initializeData(tests, initialized)
  /\ initialized' = TRUE
  /\ board' = <<>> /\ boardFor' = <<>>
  /\ EvalCleared
  /\ UNCHANGED <<now, takeVars, dashVars, authorVars, studentVars>>

\* updateTest also writing the new total to the submissions of the test
UpdateTest_SyncsSubmissions ==
  /\ \E id \in TestIdInputs, updates \in UpdateMenu :
       /\ tests' = updateTest(initializeData(tests, initialized), id, updates)
       /\ submissions' =
            [i \in DOMAIN submissions |->
               IF submissions[i].testId = id /\ "totalMarks" \in DOMAIN updates
               THEN [submissions[i] EXCEPT !.totalMarks = updates.totalMarks]
               ELSE submissions[i]]
  /\ initialized' = TRUE
  /\ NoCallRecord
  /\ UNCHANGED <<now, takeVars, dashVars, authorVars, studentVars>>

\* updateTest(id, updates)
UpdateTest ==
  /\ \E id \in TestIdInputs, updates \in UpdateMenu :
       tests' = updateTest(initializeData(tests, initialized), id, updates)
  /\ initialized' = TRUE
  /\ NoCallRecord
  /\ UNCHANGED <<submissions, now, takeVars, dashVars, authorVars, studentVars>>

\* toggleTestStatus(id), the switch of the teacher dashboard
ToggleTestStatus ==
  /\ \E id \in TestIdInputs :
       tests' = toggleTestStatus(initializeData(tests, initialized), id)
  /\ initialized' = TRUE
  /\ NoCallRecord
  /\ UNCHANGED <<submissions, now, takeVars, dashVars, authorVars, studentVars>>

RepoNext ==
  \/ Tick
  \/ CreateTest
  \/ RepoSubmitTest
  \/ UpdateTest
  \/ ToggleTestStatus
  \/ GetLeaderboard
SpecRepo == StoreInit /\ [][RepoNext]_vars

\* --------------------------------------------- the test attempt as a machine
\* the store before an attempt: the seeded test and a quiz that a teacher
\* created (id 'test-2') and activated
quizStore == toggleTestStatus(createTest(mockTests, 2, authoredQuiz), 2)

\* what an earlier attempt of the same student at the quiz has stored
priorSubmissions ==
  submitTest(quizStore, <<>>, 2, 2, user.id, user.name, <<>>, 0, <<>>).submissions

\* the first render of TakeTest (lines 25-36), before its effect has run
TakeInit ==
  /\ tests = quizStore
  /\ initialized = TRUE
  /\ submissions \in {<<>>, priorSubmissions}
  /\ now = 3
  /\ board = <<>>
  /\ boardFor = <<>>
  /\ submitResult = <<>>
  /\ EvalIdle
  /\ TakeIdle
  /\ DashIdle
  /\ StudentIdle
  /\ AuthorIdle

idleVars == <<evalVars, boardVars, tests, initialized, dashVars, authorVars, studentVars>>

\* the mount effect of TakeTest (lines 38-135) for the route /take-test/:testId;
\* its dependencies never change, so it runs once. fx keeps the render the
\* effect ran in, which is the first one. For an unknown id it navigates away
\* and registers nothing
MountEffect(testId) ==
  /\ ~mounted /\ ~unmounted
  /\ LET testData == getTestById(tests, testId)
       IN IF testData = <<>>
          THEN /\ unmounted' = TRUE
               /\ subsAtStart' = Len(submissions)
               /\ UNCHANGED <<mounted, test, timeLeft, testStarted, intervalActive,
                               fx, startTime>>
          ELSE /\ testData[1].duration * 60 <= MaxTimeLeft
               /\ mounted' = TRUE
               /\ fx' = Render(test, studentName, answers, antiCheatEvents)
               /\ test' = testData
               /\ timeLeft' = testData[1].duration * 60
               /\ testStarted' = TRUE
               /\ intervalActive' = TRUE
               /\ startTime' = now
               /\ subsAtStart' = Len(submissions)
               /\ UNCHANGED unmounted
  /\ UNCHANGED <<idleVars, submissions, now, anticheat, answers, showSubmitDialog,
                 studentName, isSubmitting, antiCheatEvents, navPending>>

\* TakeTest mounted for any id in the address
Mount == \E testId \in TestIdInputs : MountEffect(testId)

\* the cleanup of the mount effect; the component state is discarded
Unmount ==
  /\ mounted
  /\ mounted' = FALSE
  /\ unmounted' = TRUE
  /\ test' = <<>>
  /\ answers' = <<>>
  /\ timeLeft' = 0
  /\ startTime' = 0
  /\ showSubmitDialog' = FALSE
  /\ studentName' = user.name
  /\ isSubmitting' = FALSE
  /\ antiCheatEvents' = <<>>
  /\ intervalActive' = FALSE
  /\ testStarted' = FALSE
  /\ fx' = Render(<<>>, user.name, <<>>, <<>>)
  /\ navPending' = FALSE
  /\ UNCHANGED <<idleVars, submissions, now, anticheat, subsAtStart>>

\* handleSubmitTest handing over only the latest event of the log
handleSubmitTest_LatestEvent(c) ==
  IF c.test = <<>>
  THEN UNCHANGED <<submissions, isSubmitting, navPending>>
  ELSE LET r == submitTest(tests, submissions, now, c.test[1].id, user.id,
                           c.studentName, c.answers, now - startTime,
                           IF c.antiCheatEvents = <<>> THEN <<>>
                           ELSE <<c.antiCheatEvents[Len(c.antiCheatEvents)]>>)
       IN IF r.thrown
          THEN /\ isSubmitting' = FALSE
               /\ UNCHANGED <<submissions, navPending>>
          ELSE /\ submissions' = r.submissions
               /\ isSubmitting' = TRUE
               /\ navPending' = TRUE

\* handleSubmitTest as the closure of render c runs it: nothing while that
\* render's test is null; a throw of submitTest releases isSubmitting again
handleSubmitTest(c) ==
  IF c.test = <<>>
  THEN UNCHANGED <<submissions, isSubmitting, navPending>>
  ELSE LET r == submitTest(tests, submissions, now, c.test[1].id, user.id,
                           c.studentName, c.answers, now - startTime,
                           c.antiCheatEvents)
       IN IF r.thrown
          THEN /\ isSubmitting' = FALSE
               /\ UNCHANGED <<submissions, navPending>>
          ELSE /\ submissions' = r.submissions
               /\ isSubmitting' = TRUE
               /\ navPending' = TRUE

\* one firing of the interval (lines 53-61); at prev <= 1 it runs handleTimeUp,
\* that is the handleSubmitTest of the render the effect captured
TimerTick ==
  /\ mounted /\ intervalActive
  /\ now' = now + 1
  /\ IF timeLeft <= 1
     THEN /\ intervalActive' = FALSE
          /\ handleSubmitTest(fx)
          /\ timeLeft' = 0
     ELSE /\ timeLeft' = timeLeft - 1
          /\ UNCHANGED <<intervalActive, submissions, isSubmitting, navPending>>
  /\ UNCHANGED <<idleVars, anticheat, mounted, unmounted, subsAtStart, test, answers,
                 startTime, showSubmitDialog, studentName, antiCheatEvents,
                 testStarted, fx>>

\* handleAnswerChange, from the radio group of a single-choice question
HandleAnswerChange ==
  /\ mounted /\ ~navPending
  /\ \E i \in DOMAIN test[1].questions :
       LET question == test[1].questions[i]
       IN /\ question.type = "mcq"
          /\ \E o \in DOMAIN question.options.a \cap (1 .. MaxChoice) :
               answers' = [id \in DOMAIN answers \cup {question.id} |->
                             IF id = question.id THEN Str(question.options.a[o])
                             ELSE answers[id]]
  /\ UNCHANGED <<idleVars, submissions, now, anticheat, mounted, unmounted, subsAtStart,
                 test, timeLeft, startTime, showSubmitDialog, studentName,
                 isSubmitting, antiCheatEvents, intervalActive, testStarted, fx,
                 navPending>>

\* a violation signal: it is logged to the store and appended to the state
Violation(event) ==
  /\ mounted
  /\ Len(antiCheatEvents) < MaxEvents
  /\ anticheat' = logAntiCheatEvent(anticheat, event)
  /\ antiCheatEvents' = Append(antiCheatEvents, event)
  /\ UNCHANGED <<idleVars, submissions, now, mounted, unmounted, subsAtStart, test,
                 answers, timeLeft, startTime, showSubmitDialog, studentName,
                 isSubmitting, intervalActive, testStarted, fx, navPending>>

\* handleVisibilityChange with document.hidden
HandleVisibilityChange ==
  /\ testStarted
  /\ Violation(AntiCheatEvent("tab_switch", "User switched to another tab/window"))

\* handleCopyPaste with ctrlKey or metaKey and one of the keys c, v, x
HandleCopyPaste ==
  \E key \in {"c", "v", "x"} :
    Violation(AntiCheatEvent("copy_paste",
                CASE key = "c" -> "Copy/paste attempt: c"
                  [] key = "v" -> "Copy/paste attempt: v"
                  [] key = "x" -> "Copy/paste attempt: x"))

\* handleRightClick
HandleRightClick ==
  Violation(AntiCheatEvent("right_click", "Right-click attempt detected"))

\* setShowSubmitDialog from the Submit Test and Continue Test buttons
SetShowSubmitDialog ==
  /\ mounted /\ ~navPending
  /\ showSubmitDialog' = ~showSubmitDialog
  /\ UNCHANGED <<idleVars, submissions, now, anticheat, mounted, unmounted, subsAtStart,
                 test, answers, timeLeft, startTime, studentName, isSubmitting,
                 antiCheatEvents, intervalActive, testStarted, fx, navPending>>

\* setStudentName from the name field of the dialog
SetStudentName ==
  /\ mounted /\ ~navPending /\ showSubmitDialog
  /\ \E name \in {<<" ">>, user.name} :
       /\ name # studentName
       /\ studentName' = name
  /\ UNCHANGED <<idleVars, submissions, now, anticheat, mounted, unmounted, subsAtStart,
                 test, answers, timeLeft, startTime, showSubmitDialog, isSubmitting,
                 antiCheatEvents, intervalActive, testStarted, fx, navPending>>

\* the dialog's Submit Test button without the isSubmitting part of `disabled`
SubmitButtonEnabled_NoLatch == trim(studentName) # <<>>

\* the dialog's Submit Test button: disabled={!studentName.trim() || isSubmitting}
SubmitButtonEnabled == trim(studentName) # <<>> /\ ~isSubmitting

\* a click on the dialog's Submit Test button: handleSubmitTest of the current render
ClickSubmit ==
  /\ mounted /\ showSubmitDialog
  /\ SubmitButtonEnabled
  /\ handleSubmitTest(Render(test, studentName, answers, antiCheatEvents))
  /\ UNCHANGED <<idleVars, now, anticheat, mounted, unmounted, subsAtStart, test, answers,
                 timeLeft, startTime, showSubmitDialog, studentName,
                 antiCheatEvents, intervalActive, testStarted, fx>>

Next ==
  \/ Mount \/ Unmount \/ TimerTick \/ HandleAnswerChange
  \/ HandleVisibilityChange \/ HandleCopyPaste \/ HandleRightClick
  \/ SetShowSubmitDialog \/ SetStudentName \/ ClickSubmit

Spec == TakeInit /\ [][Next]_vars

\* --------------------------------------------- the student's session as a machine
\* the store in which the teacher's quiz was created and never activated
draftStore == createTest(mockTests, 2, authoredQuiz)

\* the student on /student-dashboard before its effect has run; the quiz is
\* active or was never activated, and the student may have attempted it
StudentInit ==
  /\ tests \in {quizStore, draftStore}
  /\ initialized = TRUE
  /\ submissions \in IF tests = quizStore THEN {<<>>, priorSubmissions} ELSE {<<>>}
  /\ now = 3
  /\ board = <<>>
  /\ boardFor = <<>>
  /\ submitResult = <<>>
  /\ EvalIdle
  /\ TakeIdle
  /\ DashIdle
  /\ StudentIdle
  /\ AuthorIdle

\* loadData, run by the effect of StudentDashboard
LoadData ==
  /\ route = <<>>
  /\ LET stored == initializeData(tests, initialized)
     IN /\ tests' = stored
        /\ activeTests' = getActiveTests(stored)
        /\ mySubmissions' = getSubmissionsByStudent(submissions, user.id)
        /\ leaderboards' = leaderboardData(getActiveTests(stored), submissions)
  /\ initialized' = TRUE
  /\ UNCHANGED <<route, submissions, now, evalVars, boardVars, takeVars, dashVars,
                 authorVars>>

\* navigate(`/take-test/${testId}`): StudentDashboard and its state go away
OpenTakeTest(testId) ==
  /\ route = <<>>
  /\ route' = <<testId>>
  /\ activeTests' = <<>>
  /\ mySubmissions' = <<>>
  /\ leaderboards' = <<>>
  /\ UNCHANGED <<evalVars, storeVars, boardVars, takeVars, dashVars, authorVars>>

\* startTest from the button of a listed test; the button is disabled when
\* hasSubmitted(test.id)
StartTest ==
  \E i \in DOMAIN activeTests :
    /\ ~hasSubmitted(mySubmissions, activeTests[i].id)
    /\ OpenTakeTest(activeTests[i].id)

\* the address /take-test/<id> entered by hand; the route asks for the
\* student role only
EnterAddress == \E testId \in TestIdInputs : OpenTakeTest(testId)

\* TakeTest mounted by the route that was opened
MountRoute ==
  /\ route # <<>>
  /\ MountEffect(route[1])

StudentNext ==
  \/ LoadData \/ StartTest \/ EnterAddress \/ MountRoute
  \/ TimerTick \/ HandleAnswerChange \/ SetShowSubmitDialog \/ ClickSubmit
  \/ Unmount \/ ToggleTestStatus

SpecStudent == StudentInit /\ [][StudentNext]_vars

\* the submissions persisted since the current attempt started
AttemptSubmissions == {i \in DOMAIN submissions : i > subsAtStart}

\* ------------------------------- the first seconds of an attempt, in detail
\* a violation signal that is not recorded in the state when it repeats the
\* latest event
Signal_Deduplicated(event) ==
  /\ mounted
  /\ Len(antiCheatEvents) < MaxLog
  /\ anticheat' = logAntiCheatEvent(anticheat, event)
  /\ antiCheatEvents' =
       IF antiCheatEvents # <<>> /\ antiCheatEvents[Len(antiCheatEvents)] = event
       THEN antiCheatEvents
       ELSE Append(antiCheatEvents, event)
  /\ UNCHANGED <<idleVars, submissions, now, mounted, unmounted, subsAtStart, test,
                 answers, timeLeft, startTime, showSubmitDialog, studentName,
                 isSubmitting, intervalActive, testStarted, fx, navPending>>

\* a violation signal as Violation, with room for a longer log
Signal(event) ==
  /\ mounted
  /\ Len(antiCheatEvents) < MaxLog
  /\ anticheat' = logAntiCheatEvent(anticheat, event)
  /\ antiCheatEvents' = Append(antiCheatEvents, event)
  /\ UNCHANGED <<idleVars, submissions, now, mounted, unmounted, subsAtStart, test,
                 answers, timeLeft, startTime, showSubmitDialog, studentName,
                 isSubmitting, intervalActive, testStarted, fx, navPending>>

\* handleVisibilityChange with document.hidden
VisibilitySignal == testStarted /\ Signal(TabSwitch)

\* handleCopyPaste with ctrlKey or metaKey and one of the keys c, v, x
CopyPasteSignal ==
  \E key \in {"c", "v", "x"} :
    Signal(AntiCheatEvent("copy_paste",
             CASE key = "c" -> "Copy/paste attempt: c"
               [] key = "v" -> "Copy/paste attempt: v"
               [] key = "x" -> "Copy/paste attempt: x"))

\* handleRightClick
RightClickSignal == Signal(RightClick)

\* a firing of the interval within the first MaxElapsed seconds
EarlyTick == now - startTime < MaxElapsed /\ TimerTick

LogNext ==
  \/ Mount \/ Unmount \/ EarlyTick \/ HandleAnswerChange
  \/ VisibilitySignal \/ CopyPasteSignal \/ RightClickSignal
  \/ SetShowSubmitDialog \/ SetStudentName \/ ClickSubmit

SpecLog == TakeInit /\ [][LogNext]_vars

\* ------------------------------------------- the dashboards as a machine
\* a quiz from the authoring dialog with two questions: the first was given
\* outcomes, the second was left without any
taggedQuiz ==
  [authoredQuiz EXCEPT
     !.questions = <<Tagged(authoredQuiz.questions[1], "CO1", "PO4"),
                     [authoredQuiz.questions[1] EXCEPT !.id = "q-2"]>>,
     !.totalMarks = 10]

\* the tests of the store: the seeded one, a quiz of the teacher (id 'test-2')
\* and a quiz that another teacher has created (id 'test-3')
dashTests ==
  LET own == createTest(mockTests, 2, taggedQuiz)
      all == createTest(own, 3, taggedQuiz)
  IN [all EXCEPT ![3].createdBy = "T002"]

Burst(event, n) == [i \in 1..n |-> event]

\* an attempt as it reaches submitTest
Attempt(testId, given, events) == [testId |-> testId, given |-> given, events |-> events]

\* attempts told apart by their events: one of the seeded test with a burst
\* of one kind after nothing or one event of each kind, and possibly a second
FirstAttempts ==
  {Attempt(1, <<>>, mix \o Burst(event, n)) :
     mix \in {<<>>, <<TabSwitch, CopyPaste, RightClick>>},
     event \in {TabSwitch, CopyPaste, RightClick},
     n \in 0..MaxBurst}
SecondAttempts ==
  { Attempt(1, <<>>, <<>>),
    Attempt(2, <<>>, <<TabSwitch>>),
    Attempt(3, <<>>, Burst(RightClick, 6)) }
EventfulAttempts ==
  {<<first>> : first \in FirstAttempts}
  \cup {<<first, second>> : first \in FirstAttempts, second \in SecondAttempts}

\* the first n keywords of the seeded free-text question, as a text
RECURSIVE KeywordText(_)
KeywordText(n) ==
  IF n = 0 THEN <<>>
  ELSE KeywordText(n - 1) \o <<" ">> \o mockTests[1].questions[3].keywords.a[n]

Stack == <<"S", "t", "a", "c", "k">>
Array == <<"A", "r", "r", "a", "y">>
Queue == <<"Q", "u", "e", "u", "e">>
Tree == <<"T", "r", "e", "e">>

\* answer maps told apart by what they earn per outcome
GradedAnswers ==
  { <<>>,
    [id \in {"q1", "q2", "q3", "q-1", "q-2"} |->
       CASE id = "q1" -> Str(Stack) [] id = "q2" -> Arr(<<Array, Stack, Queue>>)
         [] id = "q3" -> Str(KeywordText(5)) [] id = "q-1" -> Str(<<"B">>)
         [] id = "q-2" -> Str(<<"A">>)],
    [id \in {"q1", "q2", "q3", "q-1", "q-2"} |->
       CASE id = "q1" -> Str(Queue) [] id = "q2" -> Arr(<<Array, Tree>>)
         [] id = "q3" -> Str(KeywordText(3)) [] id = "q-1" -> Str(<<"A">>)
         [] id = "q-2" -> Str(<<"B">>)],
    [id \in {"q2", "q3"} |->
       CASE id = "q2" -> Arr(<<Array, Stack>>) [] id = "q3" -> Str(KeywordText(2))],
    [id \in {"q2", "q3", "q-1"} |->
       CASE id = "q2" -> Arr(<<Array>>) [] id = "q3" -> Str(KeywordText(4))
         [] id = "q-1" -> Str(<<"B">>)] }
GradedAttempts ==
  UNION {[1..n -> {Attempt(testId, given, <<>>) :
                     testId \in {1, 2, 3}, given \in GradedAnswers}] :
           n \in 0..MaxDashSubmissions}

\* the submissions that submitTest has stored for these attempts, one second
\* apart, after the tests were created
RECURSIVE submitAll(_, _)
submitAll(storedTests, attempts) ==
  IF attempts = <<>> THEN <<>>
  ELSE LET last == attempts[Len(attempts)]
       IN submitTest(storedTests,
                     submitAll(storedTests, SubSeq(attempts, 1, Len(attempts) - 1)),
                     3 + Len(attempts), last.testId, user.id, user.name,
                     last.given, 0, last.events).submissions

\* every event of these attempts, as logAntiCheatEvent has stored them
RECURSIVE loggedEvents(_)
loggedEvents(attempts) ==
  IF attempts = <<>> THEN <<>> ELSE Head(attempts).events \o loggedEvents(Tail(attempts))

\* the store as attempts have left it; no attempt is under way and the
\* dashboards have not loaded
DashInit ==
  /\ tests = dashTests
  /\ initialized = TRUE
  /\ \E attempts \in EventfulAttempts \cup GradedAttempts :
       /\ submissions = submitAll(dashTests, attempts)
       /\ anticheat = loggedEvents(attempts)
       /\ now = 4 + Len(attempts)
  /\ board = <<>>
  /\ boardFor = <<>>
  /\ submitResult = <<>>
  /\ EvalIdle
  /\ DashIdle
  /\ StudentIdle
  /\ AuthorIdle
  /\ mounted = FALSE /\ unmounted = FALSE /\ subsAtStart = 0
  /\ test = <<>> /\ answers = <<>> /\ timeLeft = 0 /\ startTime = 0
  /\ showSubmitDialog = FALSE /\ studentName = user.name
  /\ isSubmitting = FALSE /\ antiCheatEvents = <<>>
  /\ intervalActive = FALSE /\ testStarted = FALSE
  /\ fx = Render(<<>>, user.name, <<>>, <<>>)
  /\ navPending = FALSE

\* what the test filter of a dashboard offers: 'all' and the teacher's tests
Selections ==
  {AllTests} \cup {<<userTestsOf(tests, teacher.id)[i].id>> :
                     i \in DOMAIN userTestsOf(tests, teacher.id)}

\* AntiCheatMonitor: a choice in the test filter (or the mount, with 'all')
\* and the effect that runs loadAntiCheatData after it
LoadAntiCheatData ==
  \E selected \in Selections :
    LET userSubmissions == userSubmissionsOf(tests, submissions, teacher.id)
    IN /\ selectedTest' = [selectedTest EXCEPT !.monitor = selected]
       /\ antiCheatSummary' = calculateAntiCheatSummary(userSubmissions, selected)
       /\ studentRiskProfiles' = generateStudentRiskProfiles(userSubmissions, selected)
       /\ loaded' = loaded \cup {"monitor"}
       /\ UNCHANGED <<evalVars, storeVars, boardVars, takeVars, authorVars, studentVars,
                    coPerformance, poPerformance>>

\* COPOAnalytics: a choice in the test filter (or the mount, with 'all') and
\* the effect that runs loadAnalyticsData after it
LoadAnalyticsData ==
  \E selected \in Selections :
    LET allTests == userTestsOf(tests, teacher.id)
    IN /\ selectedTest' = [selectedTest EXCEPT !.analytics = selected]
       /\ coPerformance' = calculatePerformance("co", allTests, submissions, selected)
       /\ poPerformance' = calculatePerformance("po", allTests, submissions, selected)
       /\ loaded' = loaded \cup {"analytics"}
       /\ UNCHANGED <<evalVars, storeVars, boardVars, takeVars, authorVars, studentVars,
                    antiCheatSummary,
                      studentRiskProfiles>>

DashNext == LoadAntiCheatData \/ LoadAnalyticsData
SpecDash == DashInit /\ [][DashNext]_vars

\* ------------------------------------------ the authoring dialog as a machine
\* what the teacher types into a text field, an option, a keyword and the
\* marks and duration fields
TypedTexts == {<<>>, <<"T">>}
TypedOptions == {<<>>, <<"A">>}
TypedKeywords == {<<"k">>}
TypedNumbers == {<<>>, <<"0">>, <<"-", "3">>, <<"2">>}
OutcomeChoices == {"CO1"}
ProgramChoices == {"PO1"}

\* the question form as the teacher has filled it in before the first step:
\* untouched, a single-choice question with one, no or two options marked, a
\* multi-choice question, a free-text question with and without a keyword
Drafts ==
  LET asked == [BlankQuestion EXCEPT !.text = <<"Q">>]
      A == <<"A">>
      B == <<"B">>
  IN { BlankQuestion,
       [asked EXCEPT !.options = <<A \o CorrectSuffix, B, <<>>, <<>> >>],
       [asked EXCEPT !.options = <<A, B, <<>>, <<>> >>],
       [asked EXCEPT !.options = <<A \o CorrectSuffix, B \o CorrectSuffix, <<>>, <<>> >>],
       [asked EXCEPT !.type = "checkbox",
                     !.options = <<A \o CorrectSuffix, B, A \o CorrectSuffix, <<>> >>],
       [asked EXCEPT !.type = "descriptive", !.keywords = Arr(<< <<"k">> >>)],
       [asked EXCEPT !.type = "descriptive"] }

\* the dialog after getCOPOMapping of its first render has initialized the
\* store; the teacher has filled in the basic information, or has not, and a
\* question
AuthorInit ==
  /\ tests = mockTests
  /\ submissions = <<>>
  /\ initialized = TRUE
  /\ now = 2
  /\ board = <<>>
  /\ boardFor = <<>>
  /\ submitResult = <<>>
  /\ EvalIdle
  /\ TakeIdle
  /\ DashIdle
  /\ StudentIdle
  /\ \E basic \in TypedTexts : title = basic /\ description = basic /\ subject = basic
  /\ durationInput = 120
  /\ draftQuestions = <<>>
  /\ currentQuestion \in Drafts
  /\ lastToast = NoToast
  /\ edits = 0

\* a change of one field by the teacher
FieldEdit ==
  /\ edits < MaxEdits
  /\ edits' = edits + 1
  /\ lastToast' = NoToast
  /\ UNCHANGED <<evalVars, storeVars, boardVars, takeVars, dashVars, studentVars>>

\* setCurrentQuestion(q) of a field for the question
SetCurrentQuestion(q) ==
  /\ FieldEdit
  /\ currentQuestion' = q
  /\ UNCHANGED <<title, description, subject, durationInput, draftQuestions>>

SetTitle ==
  /\ FieldEdit
  /\ \E value \in TypedTexts : title' = value
  /\ UNCHANGED <<description, subject, durationInput, draftQuestions, currentQuestion>>

SetDescription ==
  /\ FieldEdit
  /\ \E value \in TypedTexts : description' = value
  /\ UNCHANGED <<title, subject, durationInput, draftQuestions, currentQuestion>>

SetSubject ==
  /\ FieldEdit
  /\ \E value \in TypedTexts : subject' = value
  /\ UNCHANGED <<title, description, durationInput, draftQuestions, currentQuestion>>

\* setDuration(parseInt(e.target.value) || 120)
SetDuration ==
  /\ FieldEdit
  /\ \E value \in TypedNumbers : durationInput' = parseIntOr(value, 120)
  /\ UNCHANGED <<title, description, subject, draftQuestions, currentQuestion>>

SetType ==
  \E value \in {"mcq", "checkbox", "descriptive"} :
    SetCurrentQuestion([currentQuestion EXCEPT !.type = value])

\* marks: parseInt(e.target.value) || 5
SetMarks ==
  \E value \in TypedNumbers :
    SetCurrentQuestion([currentQuestion EXCEPT !.marks = parseIntOr(value, 5)])

SetCo == \E value \in OutcomeChoices : SetCurrentQuestion([currentQuestion EXCEPT !.co = value])

SetPo == \E value \in ProgramChoices : SetCurrentQuestion([currentQuestion EXCEPT !.po = value])

SetText == \E value \in TypedTexts \cup {<<"Q">>} : SetCurrentQuestion([currentQuestion EXCEPT !.text = value])

\* the input of an option, shown for the choice types:
\* updateOption(index, e.target.value + (option.includes('[CORRECT]') ? ' [CORRECT]' : ''))
TypeOption ==
  /\ currentQuestion.type \in {"mcq", "checkbox"}
  /\ \E index \in DOMAIN currentQuestion.options, value \in TypedOptions :
       LET option == currentQuestion.options[index]
           suffix == IF includes(option, CorrectMarker) THEN CorrectSuffix ELSE <<>>
       IN SetCurrentQuestion([currentQuestion EXCEPT !.options[index] = value \o suffix])

\* the checkbox of an option:
\* updateOption(index, option.replace(' [CORRECT]', '') + (checked ? ' [CORRECT]' : ''))
CheckOption ==
  /\ currentQuestion.type \in {"mcq", "checkbox"}
  /\ \E index \in DOMAIN currentQuestion.options :
       LET option == currentQuestion.options[index]
           checked == ~includes(option, CorrectMarker)
           suffix == IF checked THEN CorrectSuffix ELSE <<>>
       IN SetCurrentQuestion([currentQuestion EXCEPT
            !.options[index] = remove(option, CorrectSuffix) \o suffix])

\* currentQuestion.keywords || []
keywordsOf(current) == IF current.keywords.t = "array" THEN current.keywords.a ELSE <<>>

AddKeyword ==
  /\ currentQuestion.type = "descriptive"
  /\ Len(keywordsOf(currentQuestion)) < MaxDraftKeywords
  /\ SetCurrentQuestion([currentQuestion EXCEPT
       !.keywords = Arr(Append(keywordsOf(currentQuestion), <<>>))])

UpdateKeyword ==
  /\ currentQuestion.type = "descriptive"
  /\ \E index \in DOMAIN keywordsOf(currentQuestion), value \in TypedKeywords :
       SetCurrentQuestion([currentQuestion EXCEPT
         !.keywords = Arr([keywordsOf(currentQuestion) EXCEPT ![index] = value])])

RemoveKeyword ==
  /\ currentQuestion.type = "descriptive"
  /\ \E index \in DOMAIN keywordsOf(currentQuestion) :
       LET kept == [i \in 1..(Len(keywordsOf(currentQuestion)) - 1) |->
                      keywordsOf(currentQuestion)[IF i < index THEN i ELSE i + 1]]
       IN SetCurrentQuestion([currentQuestion EXCEPT !.keywords = Arr(kept)])

\* the Add Question button
AddQuestion ==
  /\ Len(draftQuestions) < MaxDraft
  /\ LET added == addQuestion(draftQuestions, currentQuestion, now)
     IN /\ draftQuestions' = added.questions
        /\ currentQuestion' = added.currentQuestion
        /\ lastToast' = Toast("addQuestion", added.toast)
  /\ UNCHANGED <<title, description, subject, durationInput, edits>>
  /\ UNCHANGED <<evalVars, storeVars, boardVars, takeVars, dashVars, studentVars>>

\* removeQuestion(index)
RemoveQuestion ==
  /\ FieldEdit
  /\ \E index \in DOMAIN draftQuestions :
       draftQuestions' = [i \in 1..(Len(draftQuestions) - 1) |->
                            draftQuestions[IF i < index THEN i ELSE i + 1]]
  /\ UNCHANGED <<title, description, subject, durationInput, currentQuestion>>

\* the Create Test button: handleCreateTest, with createTest and resetForm
HandleCreateTest ==
  IF title = <<>> \/ description = <<>> \/ subject = <<>> \/ draftQuestions = <<>>
  THEN /\ lastToast' = Toast("handleCreateTest", "error")
       /\ UNCHANGED <<title, description, subject, durationInput, draftQuestions,
                      currentQuestion, edits>>
       /\ UNCHANGED <<evalVars, storeVars, boardVars, takeVars, dashVars, studentVars>>
  ELSE /\ Len(tests) < MaxTests
       /\ tests' = createTest(tests, now, testDataOf(draftQuestions, durationInput))
       /\ title' = <<>>
       /\ description' = <<>>
       /\ subject' = <<>>
       /\ durationInput' = 120
       /\ draftQuestions' = <<>>
       /\ currentQuestion' = BlankQuestion
       /\ lastToast' = Toast("handleCreateTest", "success")
       /\ UNCHANGED <<edits, submissions, now, initialized>>
       /\ UNCHANGED <<evalVars, boardVars, takeVars, dashVars, studentVars>>

AuthorNext ==
  \/ SetTitle
  \/ SetDescription
  \/ SetSubject
  \/ SetDuration
  \/ SetType
  \/ SetMarks
  \/ SetCo
  \/ SetPo
  \/ SetText
  \/ TypeOption
  \/ CheckOption
  \/ AddKeyword
  \/ UpdateKeyword
  \/ RemoveKeyword
  \/ AddQuestion
  \/ RemoveQuestion
  \/ HandleCreateTest
SpecAuthor == AuthorInit /\ [][AuthorNext]_vars

\* ------------------------------------------------- claims on the evaluation
AnswerOf(question) == Lookup(evAnswers, question.id)
VerdictOf(question) == evResult.evaluatedAnswers[question.id]
EvaluatedQuestions(type) ==
  IF evPc = "return" THEN {q \in Range(evTest.questions) : q.type = type} ELSE {}

SameString(x, y) == x.t = "string" /\ y.t = "string" /\ x.s = y.s

\* C1: a single-choice question gets its full marks and isCorrect = TRUE iff
\* the submitted value is a string equal to the canonical answer; otherwise it
\* gets 0 and isCorrect = FALSE (no value in between).
C1_McqAllOrNothing ==
  \A q \in EvaluatedQuestions("mcq") :
    IF SameString(AnswerOf(q), q.correctAnswer)
    THEN VerdictOf(q).isCorrect /\ VerdictOf(q).marksAwarded = Num(q.marks)
    ELSE ~VerdictOf(q).isCorrect /\ VerdictOf(q).marksAwarded = Num(0)

\* an evaluated single-choice question answered with its canonical string
C1_Witness ==
  \E q \in EvaluatedQuestions("mcq") :
    /\ SameString(AnswerOf(q), q.correctAnswer)
    /\ VerdictOf(q).marksAwarded = Num(q.marks)

Min2(a, b) == IF a <= b THEN a ELSE b
Max2(a, b) == IF a <= b THEN b ELSE a

\* the quantities of the multi-choice rule, from the sets C and S
CanonSet(q) == Range(q.correctAnswer.a)
SubmittedSet(q) == Range(AnswerOf(q).a)
CsOf(q) == Cardinality(SubmittedSet(q) \cap CanonSet(q))
IsOf(q) == Cardinality(SubmittedSet(q) \ CanonSet(q))
KOf(q) == Cardinality(CanonSet(q))
\* 2k * max(0, partial - penalty), with partial = (cs/k)*points and
\* penalty = min(partial/2, is*(points/k))
CheckboxAwardTimes2K(q) ==
  Max2(0, 2 * CsOf(q) * q.marks - Min2(CsOf(q) * q.marks, 2 * IsOf(q) * q.marks))

\* C2: a multi-choice question with canonical set C (k = |C| >= 1) and a
\* submitted list with set S is awarded max(0, partial - penalty), and is
\* correct iff |S \cap C| = k and |S \ C| = 0; duplicates in the list count once.
C2_CheckboxPartialCredit ==
  \A q \in EvaluatedQuestions("checkbox") :
    (AnswerOf(q).t = "array" /\ q.correctAnswer.t = "array" /\ KOf(q) >= 1) =>
      /\ VerdictOf(q).marksAwarded.n * 2 * KOf(q)
           = VerdictOf(q).marksAwarded.d * CheckboxAwardTimes2K(q)
      /\ VerdictOf(q).isCorrect <=> (CsOf(q) = KOf(q) /\ IsOf(q) = 0)

\* an evaluated multi-choice answer with a duplicate, a correct and an
\* incorrect selection, that earned part of the marks
C2_Witness ==
  \E q \in EvaluatedQuestions("checkbox") :
    /\ AnswerOf(q).t = "array"
    /\ Len(AnswerOf(q).a) > Cardinality(SubmittedSet(q))
    /\ CsOf(q) >= 1 /\ IsOf(q) >= 1
    /\ VerdictOf(q).marksAwarded.n > 0
    /\ VerdictOf(q).marksAwarded.n < q.marks * VerdictOf(q).marksAwarded.d

\* keyword kw occurs in answer at some position, letters compared without case
OccursIgnoringCase(kw, answer) ==
  \E p \in 0..(Len(answer) - Len(kw)) :
    \A j \in 1..Len(kw) : LowerChar(answer[p + j]) = LowerChar(kw[j])
MatchedOf(q) ==
  Cardinality({i \in 1..Len(q.keywords.a) : OccursIgnoringCase(q.keywords.a[i], AnswerOf(q).s)})
TotalOf(q) == Len(q.keywords.a)

\* C3: a free-text question with a non-empty keyword list and a string answer
\* is awarded round((matched/total)*points), and is correct iff
\* matched/total >= 0.6, the boundary included.
C3_DescriptiveKeywords ==
  \A q \in EvaluatedQuestions("descriptive") :
    (AnswerOf(q).t = "string" /\ q.keywords.t = "array" /\ TotalOf(q) >= 1) =>
      /\ VerdictOf(q).marksAwarded.d = 1
      /\ 2 * TotalOf(q) * VerdictOf(q).marksAwarded.n
           <= 2 * MatchedOf(q) * q.marks + TotalOf(q)
      /\ 2 * MatchedOf(q) * q.marks + TotalOf(q)
           < 2 * TotalOf(q) * (VerdictOf(q).marksAwarded.n + 1)
      /\ VerdictOf(q).isCorrect <=> (10 * MatchedOf(q) >= 6 * TotalOf(q))

\* an evaluated free-text answer that matched exactly 3 of 5 keywords, and is correct
C3_Witness ==
  \E q \in EvaluatedQuestions("descriptive") :
    /\ AnswerOf(q).t = "string"
    /\ TotalOf(q) = 5 /\ MatchedOf(q) = 3
    /\ VerdictOf(q).isCorrect

\* the per-question awards as stored in the result, in question order
StoredAwards ==
  [i \in 1..Len(evTest.questions) |-> VerdictOf(evTest.questions[i]).marksAwarded]

\* C8: the score is the sum of the stored per-question awards rounded once to
\* the nearest integer; the stored award of a single-choice or multi-choice
\* question is the unrounded value, that of a free-text question an integer.
C8_ScoreRoundedOnce ==
  evPc = "return" =>
    LET total == RatSum(StoredAwards)
    IN /\ 2 * total.d * evResult.score <= 2 * total.n + total.d
       /\ 2 * total.n + total.d < 2 * total.d * (evResult.score + 1)
       /\ \A q \in EvaluatedQuestions("descriptive") : VerdictOf(q).marksAwarded.d = 1
       /\ \A q \in EvaluatedQuestions("mcq") :
            VerdictOf(q).marksAwarded \in {Num(0), Num(q.marks)}
       /\ \A q \in EvaluatedQuestions("checkbox") :
            AnswerOf(q).t = "array" =>
              VerdictOf(q).marksAwarded.n * 2 * KOf(q)
                = VerdictOf(q).marksAwarded.d * CheckboxAwardTimes2K(q)

\* an evaluated test whose stored awards are two halves and whose score is 1
\* (rounding each award first would give 2)
C8_Witness ==
  /\ evPc = "return"
  /\ Len(evTest.questions) = 2
  /\ \A i \in 1..2 : StoredAwards[i] = Half
  /\ evResult.score = 1

C9_OneVerdictPerQuestion ==
  evPc = "return" =>
    /\ DOMAIN evResult.evaluatedAnswers = {q.id : q \in Range(evTest.questions)}
    /\ Len(submissions) = 1
    /\ DOMAIN submissions[1].evaluatedAnswers = {q.id : q \in Range(evTest.questions)}
    /\ submissions[1].evaluatedAnswers = evResult.evaluatedAnswers

\* a stored submission of a two-question test, one question unanswered and an
\* answer given for an id the test does not have
C9_Witness ==
  /\ evPc = "return"
  /\ Len(evTest.questions) = 2
  /\ UnknownId \in DOMAIN evAnswers
  /\ \E q \in Range(evTest.questions) : q.id \notin DOMAIN evAnswers
  /\ Cardinality(DOMAIN submissions[1].evaluatedAnswers) = 2

\* ------------------------------------------------ claims on the leaderboard
\* C6: the entries returned by getLeaderboard are ordered by score descending
\* and, among equal scores, by timeSpent ascending: a higher score is earlier
\* whatever the times, and with equal scores a lower timeSpent is earlier.
C6_LeaderboardOrder ==
  boardFor # <<>> =>
    \A i, j \in DOMAIN board :
      /\ board[i].score > board[j].score => i < j
      /\ (board[i].score = board[j].score /\ board[i].timeSpent < board[j].timeSpent) => i < j

\* a leaderboard whose first entry has the higher score and the longer time
C6_Witness ==
  /\ boardFor # <<>>
  /\ Len(board) >= 2
  /\ board[1].score > board[2].score
  /\ board[1].timeSpent > board[2].timeSpent

\* the stored submissions of the test the leaderboard was asked for
BoardSubmissions == {i \in DOMAIN submissions : submissions[i].testId = boardFor[1]}

EntryOf(entry, sub) ==
  /\ entry.studentId = sub.studentId
  /\ entry.score = sub.score
  /\ entry.totalMarks = sub.totalMarks
  /\ entry.timeSpent = sub.timeSpent
  /\ entry.submittedAt = sub.submittedAt

\* C7: getLeaderboard(testId) returns one entry for each stored submission of
\* that test and none for another test; the rank of an entry is its 1-based
\* position, so the ranks are 1..n; entries equal in score and time keep their
\* submission order.
C7_LeaderboardRanks ==
  boardFor # <<>> =>
    /\ Len(board) = Cardinality(BoardSubmissions)
    /\ \A k \in DOMAIN board : board[k].rank = k
    /\ \E p \in [DOMAIN board -> BoardSubmissions] :
         /\ \A k, l \in DOMAIN board : k # l => p[k] # p[l]
         /\ \A k \in DOMAIN board : EntryOf(board[k], submissions[p[k]])
         /\ \A k, l \in DOMAIN board :
              (/\ k < l
               /\ board[k].score = board[l].score
               /\ board[k].timeSpent = board[l].timeSpent) => p[k] < p[l]

\* a leaderboard of two entries that tie in score and time, submitted at
\* different instants, asked for while the store also holds a submission of
\* another test
C7_Witness ==
  /\ boardFor # <<>>
  /\ Len(board) = 2
  /\ board[1].score = board[2].score
  /\ board[1].timeSpent = board[2].timeSpent
  /\ board[1].submittedAt < board[2].submittedAt
  /\ Len(submissions) > 2

\* ------------------------------------------------- claims on the test attempt
\* the countdown of the attempt has run out
TimerExpired == mounted /\ test # <<>> /\ timeLeft = 0 /\ ~intervalActive

\* C4: once the countdown of an attempt has reached zero, the store holds a
\* submission of that attempt, whether or not the student submitted by hand.
C4_AutoSubmitPersists ==
  TimerExpired => AttemptSubmissions # {}

\* C5: an attempt persists at most one submission, however clicks on the
\* submit button, failed submits and the expiry of the timer interleave.
C5_AtMostOneSubmission ==
  Cardinality(AttemptSubmissions) <= 1

\* a submission was stored by a click, and after it the timer of the same,
\* still mounted, attempt has expired
C5_Witness ==
  /\ TimerExpired
  /\ navPending
  /\ Cardinality(AttemptSubmissions) = 1
  /\ \A i \in AttemptSubmissions : submissions[i].timeSpent < now - startTime

\* ------------------------------------------- claims C11 to C20
\* the award of question q for the selection list other, and its counts
AwardFor(q, other) == evaluateCheckbox(q, Arr(other)).marksAwarded
CsFor(q, other) == Cardinality(Range(other) \cap CanonSet(q))
IsFor(q, other) == Cardinality(Range(other) \ CanonSet(q))

\* the submitted list of q with further options ticked after it
OptionOrder == << <<"a">>, <<"A">>, <<"b">>, <<"B">> >>
Extended(q) ==
  {AnswerOf(q).a \o SelectSeq(OptionOrder, LAMBDA o : o \in X) : X \in SUBSET Options}

\* C11: for a multi-choice question with positive marks, a selection with as
\* many incorrect and at least as many correct options as the submitted one
\* is awarded at least as much, and a selection with as many correct and at
\* least as many incorrect options is awarded at most as much.
C11_CheckboxMonotone ==
  \A q \in EvaluatedQuestions("checkbox") :
    (AnswerOf(q).t = "array" /\ q.correctAnswer.t = "array") =>
      \A other \in Extended(q) :
        /\ (IsFor(q, other) = IsOf(q) /\ CsFor(q, other) >= CsOf(q))
              => RatLe(VerdictOf(q).marksAwarded, AwardFor(q, other))
        /\ (CsFor(q, other) = CsOf(q) /\ IsFor(q, other) >= IsOf(q))
              => RatLe(AwardFor(q, other), VerdictOf(q).marksAwarded)

\* an evaluated selection of one correct option that one more correct option
\* would raise and an incorrect option would lower
C11_Witness ==
  \E q \in EvaluatedQuestions("checkbox") :
    /\ AnswerOf(q).t = "array"
    /\ CsOf(q) = 1 /\ IsOf(q) = 0
    /\ \E more \in Extended(q) :
         /\ IsFor(q, more) = 0 /\ CsFor(q, more) = 2
         /\ ~RatLe(AwardFor(q, more), VerdictOf(q).marksAwarded)
    /\ \E worse \in Extended(q) :
         /\ CsFor(q, worse) = 1 /\ IsFor(q, worse) = 1
         /\ ~RatLe(VerdictOf(q).marksAwarded, AwardFor(q, worse))

\* the stored submissions the monitor looks at: those of the teacher's
\* tests, narrowed to the selected test
MonitoredSubmissions ==
  {i \in DOMAIN submissions :
     /\ \E k \in DOMAIN tests :
          tests[k].createdBy = teacher.id /\ tests[k].id = submissions[i].testId
     /\ selectedTest.monitor # AllTests => submissions[i].testId = selectedTest.monitor[1]}

\* the events of the monitored submissions, each as <<submission, position>>
MonitoredEvents ==
  UNION {{<<i, j>> : j \in DOMAIN submissions[i].antiCheatEvents} : i \in MonitoredSubmissions}
MonitoredEventsOfType(type) ==
  {e \in MonitoredEvents : submissions[e[1]].antiCheatEvents[e[2]].type = type}

\* C12: the summary of the monitor counts every event of every monitored
\* submission once, in total and per kind, and its risk level is Low for a
\* total of at most 5, Medium for 6..20, High for 21..50 and Critical above 50;
\* with no monitored submission every count is 0 and the level is Low.
C12_AggregateSummary ==
  "monitor" \in loaded =>
    /\ antiCheatSummary.totalEvents = Cardinality(MonitoredEvents)
    /\ antiCheatSummary.tabSwitches = Cardinality(MonitoredEventsOfType("tab_switch"))
    /\ antiCheatSummary.copyPasteAttempts = Cardinality(MonitoredEventsOfType("copy_paste"))
    /\ antiCheatSummary.rightClicks = Cardinality(MonitoredEventsOfType("right_click"))
    /\ antiCheatSummary.fullscreenExits = Cardinality(MonitoredEventsOfType("fullscreen_exit"))
    /\ antiCheatSummary.riskLevel =
         (IF antiCheatSummary.totalEvents <= 5 THEN "Low"
          ELSE IF antiCheatSummary.totalEvents <= 20 THEN "Medium"
          ELSE IF antiCheatSummary.totalEvents <= 50 THEN "High"
          ELSE "Critical")
    /\ MonitoredSubmissions = {} => antiCheatSummary = NoSummary

\* a summary of two submissions with events of all three kinds, 6 in total,
\* which is the first total that is Medium
C12_Witness ==
  /\ "monitor" \in loaded
  /\ Cardinality(MonitoredSubmissions) = 2
  /\ antiCheatSummary.totalEvents = 6
  /\ antiCheatSummary.tabSwitches > 0
  /\ antiCheatSummary.copyPasteAttempts > 0
  /\ antiCheatSummary.rightClicks > 0
  /\ antiCheatSummary.riskLevel = "Medium"

\* the monitored submission a risk profile was made from
ProfiledSubmissions(profile) ==
  {i \in MonitoredSubmissions :
     /\ submissions[i].studentId = profile.studentId
     /\ submissions[i].testId = profile.testId
     /\ submissions[i].antiCheatEvents = profile.events}

\* C13: every risk profile is the profile of one monitored submission with
\* events, its count is the number of that submission's events, and its risk
\* level is Low for a count of at most 2, Medium for 3..5, High for 6..10 and
\* Critical above 10, whatever the aggregate level is.
C13_StudentRiskLevel ==
  "monitor" \in loaded =>
    /\ Len(studentRiskProfiles)
         = Cardinality({i \in MonitoredSubmissions : submissions[i].antiCheatEvents # <<>>})
    /\ \A k \in DOMAIN studentRiskProfiles :
         LET profile == studentRiskProfiles[k]
         IN /\ ProfiledSubmissions(profile) # {}
            /\ profile.totalViolations = Len(profile.events)
            /\ profile.riskLevel =
                 (IF profile.totalViolations <= 2 THEN "Low"
                  ELSE IF profile.totalViolations <= 5 THEN "Medium"
                  ELSE IF profile.totalViolations <= 10 THEN "High"
                  ELSE "Critical")

\* the 6 events of a single submission: Medium in aggregate, High per student
C13_Witness ==
  /\ "monitor" \in loaded
  /\ antiCheatSummary.totalEvents = 6
  /\ antiCheatSummary.riskLevel = "Medium"
  /\ Len(studentRiskProfiles) = 1
  /\ studentRiskProfiles[1].totalViolations = 6
  /\ studentRiskProfiles[1].riskLevel = "High"

\* C14: a call of submitTest with the id of no stored test throws, and the
\* stored submissions are the same after the call as before it.
C14_MissingTestThrows ==
  (submitResult # <<>> /\ getTestById(tests, submitResult[1].testId) = <<>>) =>
    /\ submitResult[1].thrown
    /\ submissions = submitResult[1].before

\* submitTest has thrown for an unknown id while the store held a submission
C14_Witness ==
  /\ submitResult # <<>>
  /\ getTestById(tests, submitResult[1].testId) = <<>>
  /\ submitResult[1].thrown
  /\ submissions # <<>>

\* C15: whenever a submission is stored during an attempt, its antiCheatEvents
\* are the in-memory log of the attempt at that moment: the same events in
\* the same order.
C15_EventsVerbatim ==
  [][Len(submissions') > Len(submissions) =>
       submissions'[Len(submissions')].antiCheatEvents = antiCheatEvents]_vars

\* a stored submission of the attempt that carries two events of different
\* kinds, while the log has not grown since
C15_Witness ==
  /\ mounted /\ navPending
  /\ \E i \in AttemptSubmissions :
       /\ Len(submissions[i].antiCheatEvents) = 2
       /\ submissions[i].antiCheatEvents[1].type # submissions[i].antiCheatEvents[2].type
       /\ submissions[i].antiCheatEvents = antiCheatEvents

\* C16: while the attempt is active, a violation signal (each is logged to
\* the store as it is reported) appends exactly its one event at the end of
\* the in-memory log and leaves the events before it as they were, and the
\* log changes in no other way; so N signals give a log of length N.
C16_SignalsAppend ==
  [][(mounted /\ mounted') =>
       /\ anticheat' # anticheat =>
            \E event \in {anticheat'[Len(anticheat')]} :
               /\ anticheat' = Append(anticheat, event)
               /\ antiCheatEvents' = Append(antiCheatEvents, event)
       /\ anticheat' = anticheat => antiCheatEvents' = antiCheatEvents]_vars

\* a log of two events of the same kind one after the other
C16_Witness ==
  /\ mounted
  /\ Len(antiCheatEvents) = 2
  /\ antiCheatEvents[1] = antiCheatEvents[2]
  /\ Len(anticheat) = 2

\* C17: when the test page has been left and the attempt has stored no
\* submission, the store is as it was when the attempt started: the same
\* tests, the same submissions and no anti-cheat event.
C17_AbandonLeavesNoTrace ==
  (unmounted /\ AttemptSubmissions = {}) =>
    /\ tests = quizStore
    /\ Len(submissions) = subsAtStart
    /\ anticheat = <<>>

\* the entries the analytics show, of both axes
PerformanceEntries ==
  IF "analytics" \in loaded THEN Range(coPerformance) \cup Range(poPerformance) ELSE {}

\* totalAwarded / totalPossible * 100 >= bound, for an entry with possible points
PercentAtLeast(entry, bound) ==
  entry.averageScore.n * 100 >= bound * entry.totalMarks * entry.averageScore.d

\* the tier of an entry by the thresholds 80, 60 and 40
TierOf(entry) ==
  IF entry.totalMarks > 0 /\ PercentAtLeast(entry, 80) THEN "Highly Attained"
  ELSE IF entry.totalMarks > 0 /\ PercentAtLeast(entry, 60) THEN "Attained"
  ELSE IF entry.totalMarks > 0 /\ PercentAtLeast(entry, 40) THEN "Partially Attained"
  ELSE "Not Attained"

\* C18 as stated: the percentage of an entry is totalAwarded / totalPossible
\* * 100 (0 without possible points), and its tier follows the thresholds.
C18_PercentageExact ==
  \A entry \in PerformanceEntries :
    /\ entry.totalMarks > 0 =>
         entry.percentage.n * entry.totalMarks * entry.averageScore.d
           = entry.percentage.d * entry.averageScore.n * 100
    /\ entry.totalMarks = 0 => entry.percentage = Num(0)
    /\ entry.attainmentLevel = TierOf(entry)

\* C18: the percentage shown for an entry is totalAwarded / totalPossible * 100
\* rounded to two decimals (halves up), and 0 without possible points; its
\* tier is taken from the value before rounding: Highly Attained from 80,
\* Attained from 60, Partially Attained from 40, else Not Attained, which is
\* also the tier of an entry without possible points.
C18_AttainmentRounded ==
  \A entry \in PerformanceEntries :
    /\ entry.totalMarks > 0 =>
         LET x == 10000 * entry.averageScore.n
             y == entry.averageScore.d * entry.totalMarks
         IN entry.percentage.n * 100 = entry.percentage.d * ((2 * x + y) \div (2 * y))
    /\ entry.totalMarks = 0 =>
         entry.percentage = Num(0) /\ entry.attainmentLevel = "Not Attained"
    /\ entry.attainmentLevel = TierOf(entry)

\* an entry at exactly 80 percent, one shown with a rounded percentage, and
\* one without possible points
C18_Witness ==
  /\ \E entry \in PerformanceEntries :
       /\ entry.totalMarks > 0
       /\ entry.averageScore.n * 100 = 80 * entry.totalMarks * entry.averageScore.d
       /\ entry.attainmentLevel = "Highly Attained"
  /\ \E entry \in PerformanceEntries :
       /\ entry.totalMarks > 0
       /\ entry.percentage.n * entry.totalMarks * entry.averageScore.d
            # entry.percentage.d * entry.averageScore.n * 100
  /\ \E entry \in PerformanceEntries :
       entry.totalMarks = 0 /\ entry.attainmentLevel = "Not Attained"

\* the sum of the values of a function with a finite domain
RECURSIVE SumOf(_)
SumOf(f) ==
  IF DOMAIN f = {} THEN Num(0)
  ELSE LET x == CHOOSE x \in DOMAIN f : TRUE
       IN RatAdd(f[x], SumOf([y \in DOMAIN f \ {x} |-> f[y]]))

\* the questions in the scope of the analytics that carry the tag on the
\* axis, each as <<test, question>>: those of the teacher's tests, narrowed to
\* the selected test
ScopedQuestions(axis, tag) ==
  {<<k, j>> \in UNION {{k} \X DOMAIN tests[k].questions : k \in DOMAIN tests} :
     /\ tests[k].createdBy = teacher.id
     /\ selectedTest.analytics # AllTests => tests[k].id = selectedTest.analytics[1]
     /\ (IF axis = "co" THEN tests[k].questions[j].co ELSE tests[k].questions[j].po) = tag}

\* the results stored for these questions, each as <<test, question, submission>>
ScopedResults(axis, tag) ==
  {r \in {<<q[1], q[2], i>> : q \in ScopedQuestions(axis, tag), i \in DOMAIN submissions} :
     /\ submissions[r[3]].testId = tests[r[1]].id
     /\ tests[r[1]].questions[r[2]].id \in DOMAIN submissions[r[3]].evaluatedAnswers}

TagsOf(axis) == IF axis = "co" THEN {"CO1", "CO2", "CO3", "CO4", "CO5"}
                ELSE {"PO1", "PO2", "PO3", "PO4", "PO5"}
EntriesOf(axis) == IF axis = "co" THEN Range(coPerformance) ELSE Range(poPerformance)

MarksOfQuestions(axis, tag) ==
  SumOf([q \in ScopedQuestions(axis, tag) |-> Num(tests[q[1]].questions[q[2]].marks)])
MarksOfResults(axis, tag) ==
  SumOf([r \in ScopedResults(axis, tag) |-> Num(tests[r[1]].questions[r[2]].marks)])
AwardsOfResults(axis, tag) ==
  SumOf([r \in ScopedResults(axis, tag) |->
           submissions[r[3]].evaluatedAnswers[tests[r[1]].questions[r[2]].id].marksAwarded])

\* C19 as stated: the total possible of a tag is the sum of the marks of the
\* questions in scope that carry the tag, and the total awarded is the sum of
\* the awards of those questions over all submissions of their tests.
C19_PossibleOncePerQuestion ==
  "analytics" \in loaded =>
    \A axis \in {"co", "po"} : \A entry \in EntriesOf(axis) :
      /\ Num(entry.totalMarks) = MarksOfQuestions(axis, entry.key)
      /\ entry.averageScore = AwardsOfResults(axis, entry.key)

\* C19: there is one entry for each tag that a question in scope carries; its
\* total possible is the sum of the marks of those questions counted once for
\* every submission of the question's test that holds a result for it, and
\* its total awarded is the sum of the awards of those results.
C19_PossiblePerResult ==
  "analytics" \in loaded =>
    \A axis \in {"co", "po"} :
      /\ {entry.key : entry \in EntriesOf(axis)}
           = {tag \in TagsOf(axis) : ScopedQuestions(axis, tag) # {}}
      /\ \A entry \in EntriesOf(axis) :
           /\ entry.totalQuestions = Cardinality(ScopedQuestions(axis, entry.key))
           /\ Num(entry.totalMarks) = MarksOfResults(axis, entry.key)
           /\ entry.averageScore = AwardsOfResults(axis, entry.key)

\* the course outcome CO2, carried by one question worth 10, over all tests
\* with two submissions of the seeded test in the store that both hold a
\* result for the question: the total possible is 20
C19_Witness ==
  /\ "analytics" \in loaded
  /\ selectedTest.analytics = AllTests
  /\ Len(submissions) = 2
  /\ \E entry \in Range(coPerformance) :
       /\ entry.key = "CO2"
       /\ entry.totalQuestions = 1
       /\ entry.totalMarks = 20
       /\ entry.averageScore # Num(0)

\* everything that localStorage holds
localStorage == <<tests, submissions, anticheat, initialized>>

\* a step that is a call of evaluateAnswers, and one that repeats the call
\* before it with the same arguments
EvaluateCall == evPc' = "return"
EvaluateRepeated ==
  evPc = "return" /\ evPc' = "return" /\ evTest' = evTest /\ evAnswers' = evAnswers

\* a step that is a call of getLeaderboard, and one that repeats the call
\* before it over the same submissions
LeaderboardCall == boardFor' # <<>>
LeaderboardRepeated == boardFor # <<>> /\ boardFor' = boardFor /\ submissions' = submissions

StoredTest(id) == getTestById(tests, id)

\* C21: every step keeps each stored submission as it is, at its place, and
\* adds at most one at the end; the added one carries the totalMarks that its
\* test has at that moment.
C21_SubmissionsImmutable ==
  [][/\ Len(submissions') \in {Len(submissions), Len(submissions) + 1}
     /\ \A i \in DOMAIN submissions : submissions'[i] = submissions[i]
     /\ Len(submissions') > Len(submissions) =>
          LET added == submissions'[Len(submissions')]
          IN /\ getTestById(tests', added.testId) # <<>>
             /\ added.totalMarks = getTestById(tests', added.testId)[1].totalMarks]_vars

\* a stored submission of the seeded test with a result for q1 and the total
\* of 40 it was given, after updateTest has changed the test's total to 30 and
\* emptied its questions
C21_Witness ==
  /\ StoredTest(1) # <<>>
  /\ StoredTest(1)[1].totalMarks = 30
  /\ StoredTest(1)[1].questions = <<>>
  /\ \E i \in DOMAIN submissions :
       /\ submissions[i].testId = 1
       /\ submissions[i].totalMarks = 40
       /\ "q1" \in DOMAIN submissions[i].evaluatedAnswers
       /\ submissions[i].score = 5

\* a test with its active flag put aside
Unflagged(aTest) == [aTest EXCEPT !.isActive = TRUE]

\* C22: every step keeps each stored test at its place with its id,
\* questions, total marks and author, whatever it does to the active flag, and
\* removes no test.
C22_TestsImmutable ==
  [][/\ Len(tests') >= Len(tests)
     /\ \A i \in DOMAIN tests : Unflagged(tests'[i]) = Unflagged(tests[i])]_vars

\* C28: no two stored tests share an id and no two stored submissions share
\* an id.
C28_IdsUnique ==
  /\ \A i, j \in DOMAIN tests : tests[i].id = tests[j].id => i = j
  /\ \A i, j \in DOMAIN submissions : submissions[i].id = submissions[j].id => i = j

\* C23: the totalMarks of every stored test is the sum of the marks of its
\* questions.
C23_TotalMarksIsSum ==
  \A i \in DOMAIN tests : tests[i].totalMarks = sumMarks(tests[i].questions)

\* a question form that is malformed: no text or no marks, a choice question
\* with the wrong number of options or with no option marked correct, a
\* free-text question without keywords
MalformedQuestion(current) ==
  \/ current.text = <<>>
  \/ current.marks = 0
  \/ current.type = "mcq" /\ Len(current.options) # 4
  \/ current.type = "checkbox" /\ Len(current.options) < 2
  \/ /\ current.type \in {"mcq", "checkbox"}
     /\ \A i \in DOMAIN current.options : ~includes(current.options[i], CorrectMarker)
  \/ current.type = "descriptive" /\ keywordsOf(current) = <<>>

\* a test form that is malformed: no title, description or subject, or no
\* question
MalformedTest ==
  title = <<>> \/ description = <<>> \/ subject = <<>> \/ draftQuestions = <<>>

\* C24: addQuestion on a malformed question reports an error and leaves the
\* draft list and the form as they are; handleCreateTest on a malformed test
\* reports an error and leaves the store and the form as they are.
C24_MalformedRejected ==
  [][/\ (lastToast'.handler = "addQuestion" /\ MalformedQuestion(currentQuestion)) =>
          /\ lastToast'.toast = "error"
          /\ UNCHANGED <<draftQuestions, currentQuestion, tests, submissions, anticheat>>
     /\ (lastToast'.handler = "handleCreateTest" /\ MalformedTest) =>
          /\ lastToast'.toast = "error"
          /\ UNCHANGED <<draftQuestions, currentQuestion, title, description, subject,
                         tests, submissions, anticheat>>]_vars

\* addQuestion has refused a single-choice question that has a text and no
\* option marked correct, after it had admitted another question
C24_Witness ==
  /\ lastToast = Toast("addQuestion", "error")
  /\ currentQuestion.type = "mcq"
  /\ currentQuestion.text # <<>>
  /\ MalformedQuestion(currentQuestion)
  /\ Len(draftQuestions) = 1

\* the question invariant
QuestionInvariant(q) ==
  /\ q.marks > 0
  /\ q.type = "mcq" =>
       /\ q.correctAnswer.t = "string"
       /\ \E i \in DOMAIN q.options.a : q.options.a[i] = q.correctAnswer.s
  /\ q.type = "checkbox" =>
       /\ q.correctAnswer.t = "array"
       /\ q.correctAnswer.a # <<>>
       /\ Range(q.correctAnswer.a) \subseteq Range(q.options.a)
  /\ q.type = "descriptive" =>
       /\ q.keywords.t = "array"
       /\ q.keywords.a # <<>>

\* C25: every question that addQuestion has put into the draft list satisfies
\* the question invariant.
C25_AdmittedQuestionsValid ==
  \A i \in DOMAIN draftQuestions : QuestionInvariant(draftQuestions[i])

\* the questions in scope that carry a tag on the axis, and their results
TaggedQuestions(axis) == UNION {ScopedQuestions(axis, tag) : tag \in TagsOf(axis)}
TaggedResults(axis) == UNION {ScopedResults(axis, tag) : tag \in TagsOf(axis)}

\* C26: no attainment group stands for the questions without a tag, and the
\* groups of an axis hold together the questions that carry a tag on it, the
\* marks of their results and the awards of their results, and nothing of the
\* other questions.
C26_UntaggedExcluded ==
  "analytics" \in loaded =>
    \A axis \in {"co", "po"} :
      /\ \A entry \in EntriesOf(axis) : entry.key \in TagsOf(axis)
      /\ SumOf([entry \in EntriesOf(axis) |-> Num(entry.totalQuestions)])
           = Num(Cardinality(TaggedQuestions(axis)))
      /\ SumOf([entry \in EntriesOf(axis) |-> Num(entry.totalMarks)])
           = SumOf([r \in TaggedResults(axis) |-> Num(tests[r[1]].questions[r[2]].marks)])
      /\ SumOf([entry \in EntriesOf(axis) |-> entry.averageScore])
           = SumOf([r \in TaggedResults(axis) |->
                      submissions[r[3]].evaluatedAnswers[tests[r[1]].questions[r[2]].id].marksAwarded])

\* the analytics of all tests, with a question in scope that has no tag on
\* either axis and two stored results for it, one with full marks and one
\* with none
C26_Witness ==
  /\ "analytics" \in loaded
  /\ selectedTest.analytics = AllTests
  /\ \E q \in ScopedQuestions("co", "") \cap ScopedQuestions("po", "") :
       LET id == tests[q[1]].questions[q[2]].id
       IN \E i, j \in DOMAIN submissions :
            /\ submissions[i].testId = tests[q[1]].id
            /\ submissions[j].testId = tests[q[1]].id
            /\ submissions[i].evaluatedAnswers[id].marksAwarded = Num(5)
            /\ submissions[j].evaluatedAnswers[id].marksAwarded = Num(0)

\* the correct options among those submitted for a multi-choice question;
\* none when the answer is not a list
CorrectSelected(q) ==
  IF AnswerOf(q).t = "array" /\ q.correctAnswer.t = "array"
  THEN SubmittedSet(q) \cap CanonSet(q) ELSE {}

\* C27: every award lies between 0 and the marks of its question and the
\* score between 0 and the sum of the marks; a multi-choice award is at least
\* half of the partial score, so it is 0 only if no correct option was
\* selected.
C27_AwardsBounded ==
  evPc = "return" =>
    /\ \A q \in Range(evTest.questions) :
         /\ RatLe(Num(0), VerdictOf(q).marksAwarded)
         /\ RatLe(VerdictOf(q).marksAwarded, Num(q.marks))
    /\ evResult.score \in 0..sumMarks(evTest.questions)
    /\ \A q \in EvaluatedQuestions("checkbox") :
         /\ VerdictOf(q).marksAwarded.n * 2 * KOf(q)
              >= VerdictOf(q).marksAwarded.d * Cardinality(CorrectSelected(q)) * q.marks
         /\ VerdictOf(q).marksAwarded = Num(0) <=> CorrectSelected(q) = {}

\* a multi-choice answer with one correct and two incorrect options, whose
\* penalty is capped: the award is exactly half of the partial score
C27_Witness ==
  \E q \in EvaluatedQuestions("checkbox") :
    /\ Cardinality(CorrectSelected(q)) = 1
    /\ IsOf(q) = 2
    /\ VerdictOf(q).marksAwarded.n > 0
    /\ VerdictOf(q).marksAwarded.n * 2 * KOf(q) = VerdictOf(q).marksAwarded.d * q.marks

\* C29: the store holds at most one submission per pair of student id and
\* test id, whether the attempt was opened from the dashboard's start button
\* or by the take-test address.
C29_OneSubmissionPerStudentTest ==
  \A i, j \in DOMAIN submissions :
    (/\ submissions[i].studentId = submissions[j].studentId
     /\ submissions[i].testId = submissions[j].testId) => i = j

\* C30: a step that persists a submission persists it for a test whose active
\* flag is true in the store.
C30_OnlyActiveTestsSubmitted ==
  [][\A i \in DOMAIN submissions' :
       i > Len(submissions) =>
         \E k \in DOMAIN tests' : /\ tests'[k].id = submissions'[i].testId
                                  /\ tests'[k].isActive]_vars

====
